---- MODULE Spec2Model ----
(***************************************************************************)
(* Model of the deep-research pipeline: the ResearchWorkflow sequencer     *)
(* (workflows/group_chat.py), the shared state the four agents read and    *)
(* write (agents/base.py), and the Research Agent's bounded fan-out and    *)
(* relevance scoring (agents/research_agent.py).                           *)
(*                                                                         *)
(* A run is one call of ResearchWorkflow.execute_query.  Every action is   *)
(* one segment of a coroutine between two suspension points of the asyncio *)
(* event loop, so everything inside an action is atomic, as it is in the   *)
(* code.  Init is the state after the workflow objects were constructed.   *)
(***************************************************************************)
EXTENDS Integers, Sequences, FiniteSets, TLC

\* ------------------------------------------------------------- bounds
NumRuns == 3            \* calls of execute_query there is room for
MaxCalls == 2           \* calls of execute_query made in Spec
MaxSteps == 2           \* search steps of a plan (the planner makes at most 3)
MaxResults == 1         \* results one provider call returns
MaxConcurrency == 2     \* largest configured SEARCH_/RELEVANCE_SCORING_CONCURRENCY
MaxItems == 4           \* results one provider call returns in SpecPreview
MaxText == 2            \* characters of a query, a title, a snippet in SpecFallback
MaxPublish == 3         \* calls of the program of the publishing agent
MaxQueue == 1           \* largest maxsize of the event queue
MaxAdders == 3          \* tasks calling one WorkflowStateManager
MaxBatch == 2           \* results of one add_search_results call
MaxContent == 7         \* characters of the text of a synthesized answer
MaxSources == 12        \* results of a list with repeating URLs and scores
SmallSources == 3       \* results of a list with any URLs and scores

\* -------------------------------------------------- program constants
SearchConcurrencyDefault == 4
ScoringConcurrencyDefault == 6
PreviewLimit == 3
StageCount == 4

Runs == 1..NumRuns
Instances == 1..NumRuns

\* A key a dict does not hold, a name bound to None.
NoRun == 0
\* search_result.py: relevance_score of a result nobody scored yet (None).
NoScore == -1
\* The searching event has no "results_count" key.
NoCount == -1

\* models/__init__.py: the members of the SearchSource enum.
SearchSource == {"google", "arxiv"}

\* group_chat.py: agent_name_sequence of select_next_speaker.
agent_name_sequence ==
    <<"Planning Agent", "Research Agent", "Reflect Agent", "Content Writing Agent">>

select_next_speaker_wrapping(round_idx) ==
    agent_name_sequence[(round_idx % StageCount) + 1]

\* group_chat.py select_next_speaker: the speaker of a round, "None" to finish.
select_next_speaker(round_idx) ==
    IF round_idx >= 4 THEN "None" ELSE agent_name_sequence[round_idx + 1]

\* group_chat.py 76: _shared_state is a class attribute, so the dict of every
\* ResearchWorkflow object is the same one.
shared_state(object) == 1

VARIABLES
    cfg,            \* ResearchAgent.__init__: enabled flags and concurrency
    web,            \* the text of the query and of the documents the providers find
    bus,            \* an asyncio.Queue of events, its producer and its consumer
    store,          \* a WorkflowStateManager: its lock, its results, its callers
    queries_db,     \* api/routes.py: per query the status execute_workflow left it in
    stream,         \* per call: the events execute_query_stream has yielded, in order
    workflow,       \* per call: the ResearchWorkflow object it is made on
    pending,        \* calls of execute_query not made yet
    shared,         \* per dict: the entries of a _shared_state
    pc,             \* per run: where the call is
    round_index,    \* per run: the group chat's round_index
    frame,          \* per run: locals of the stage in progress
    search_events,  \* per workflow object: ResearchAgent.search_events
    history,        \* per run: its emit_event and provider calls, in order
    outcome,        \* per run: what the caller of execute_query received
    started         \* per run: the agents the sequencer has invoked, in order

vars == <<cfg, web, bus, store, queries_db, stream, workflow, pending, shared, pc, round_index, frame, search_events,
          history, outcome, started>>

\* ------------------------------------------------------- shared state
NoPlan == [by |-> NoRun, query_id |-> NoRun, steps |-> 0, sources |-> <<>>]
NoResults == [by |-> NoRun, items |-> <<>>]

\* dict.clear(): no key is left.
ClearedState ==
    [query |-> NoRun, search_sources |-> NoRun, research_plan |-> NoPlan,
     search_results |-> NoResults, reflect_feedback |-> NoRun,
     synthesized_answer |-> NoRun]

UnclearedState(r) ==
    [shared[shared_state(workflow[r])] EXCEPT !.query = r, !.search_sources = r]

\* group_chat.py 319-322: the state right after a run initialised it.
InitialisedState(r) ==
    [ClearedState EXCEPT !.query = r, !.search_sources = r]

\* BaseCustomAgent.get_shared_state: the dict the agents of run r read.
StateOf(r) == shared[shared_state(workflow[r])]

\* BaseCustomAgent.set_shared_state: the dicts after run r stored s.
Stored(r, s) == [shared EXCEPT ![shared_state(workflow[r])] = s]

\* ------------------------------------------------------------- frames
NoFrame ==
    [query_id |-> NoRun, plan |-> NoPlan, step |-> 0, all_results |-> <<>>,
     tasks |-> <<>>, sem |-> 0, scoring |-> <<>>, ssem |-> 0, evs |-> <<>>,
     results |-> <<>>, sources |-> <<>>]

\* The locals of a stage are gone once it returned or raised; the event dicts
\* stay reachable from ResearchAgent.search_events.
StageLeft(f) == [NoFrame EXCEPT !.evs = f.evs]

NoOutcome == [status |-> "none", error |-> "", answer |-> NoRun]

\* Text is a sequence of characters.  The query and the title and the snippet
\* of the document a provider returns for it.
DefaultWeb ==
    [query |-> <<"a", " ", "b">>,
     google |-> [title |-> <<"a">>, snippet |-> <<"c">>],
     arxiv |-> [title |-> <<"c">>, snippet |-> <<"a">>],
     answer |-> <<"a", "b", "c", "d", "e", "f">>]

\* No "_event_queue" key in the shared state, nobody publishing.
NoBus ==
    [attached |-> FALSE, maxsize |-> 0, program |-> <<>>, pos |-> 1,
     agent |-> "done", task |-> <<>>, ready |-> <<>>, putters |-> <<>>,
     queue |-> <<>>, enqueued |-> <<>>, delivered |-> <<>>, waited |-> {}]

\* No task holds the lock of a WorkflowStateManager.
Unlocked == 0

\* No WorkflowStateManager in use: the workflow and the agents make none.
NoStore == [lock |-> Unlocked, search_results |-> <<>>, call |-> <<>>]

\* routes.py 416 makes a ResearchWorkflow object per query: every call is made
\* on an object of its own.
OwnObjects == [r \in Runs |-> r]

\* An object can also be called again: calls 1 and 2 are made on one object,
\* every later call on an object of its own.
PairedObjects == [r \in Runs |-> IF r <= 2 THEN 1 ELSE r - 1]

InitWith(configs, calls, objects, webs, buses, stores) ==
    /\ cfg \in configs
    /\ web \in webs
    /\ bus \in buses
    /\ store \in stores
    /\ queries_db = [q \in Runs |-> "none"]
    /\ stream = [r \in Runs |-> <<>>]
    /\ workflow \in objects
    /\ pending = calls
    /\ shared = [d \in Instances |-> ClearedState]
    /\ pc = [r \in Runs |-> "idle"]
    /\ round_index = [r \in Runs |-> 0]
    /\ frame = [r \in Runs |-> NoFrame]
    /\ search_events = [i \in Instances |-> <<>>]
    /\ history = [r \in Runs |-> <<>>]
    /\ outcome = [r \in Runs |-> NoOutcome]
    /\ started = [r \in Runs |-> <<>>]

\* --------------------------------------------------------- sequencer
\* execute_query up to its first suspension (the run_stream loop): the shared
\* state is cleared and the query stored.  Nothing checks for a run in flight.
\* Calls are numbered in the order they are made.
StartRun(r) ==
    /\ r \in pending
    /\ \A earlier \in pending : r <= earlier
    /\ pc[r] = "idle"
    /\ pending' = pending \ {r}
    /\ shared' = Stored(r, InitialisedState(r))
    /\ pc' = [pc EXCEPT ![r] = "select"]
    /\ UNCHANGED <<cfg, web, bus, store, queries_db, stream, workflow, round_index, frame, search_events, history,
                   outcome, started>>

\* A stage returned: the group chat advances to the next round.
StageReturned(r) ==
    /\ pc' = [pc EXCEPT ![r] = "select"]
    /\ round_index' = [round_index EXCEPT ![r] = @ + 1]

StageRaisedContinues(r, error) ==
    /\ pc' = [pc EXCEPT ![r] = "select"]
    /\ round_index' = [round_index EXCEPT ![r] = @ + 1]
    /\ outcome' = [outcome EXCEPT ![r] = [status |-> "error", error |-> error,
                                          answer |-> NoRun]]

\* A stage raised: BaseCustomAgent.run and execute_query re-raise, the caller
\* of execute_query receives the exception.
StageRaised(r, error) ==
    /\ pc' = [pc EXCEPT ![r] = "failed"]
    /\ round_index' = round_index
    /\ outcome' = [outcome EXCEPT ![r] = [status |-> "error", error |-> error,
                                          answer |-> NoRun]]

\* The group chat asks select_next_speaker for the speaker of the round.
Selected(r, agent) ==
    /\ pc[r] = "select"
    /\ select_next_speaker(round_index[r]) = agent
    /\ started' = [started EXCEPT ![r] = Append(@, agent)]

\* The group chat has no speaker left: run_stream ends.
SelectNone(r) ==
    /\ pc[r] = "select"
    /\ select_next_speaker(round_index[r]) = "None"
    /\ pc' = [pc EXCEPT ![r] = "finishing"]
    /\ UNCHANGED <<cfg, web, bus, store, queries_db, stream, workflow, pending, shared, round_index, frame,
                   search_events, history, outcome, started>>

\* group_chat.py 427-455: final_results, read from the shared state.
FinalResults(s, r) ==
    [status |-> "success", error |-> "", answer |-> s.synthesized_answer]

Finish(r) ==
    /\ pc[r] = "finishing"
    /\ outcome' = [outcome EXCEPT ![r] = FinalResults(StateOf(r), r)]
    /\ pc' = [pc EXCEPT ![r] = "done"]
    /\ UNCHANGED <<cfg, web, bus, store, queries_db, stream, workflow, pending, shared, round_index, frame,
                   search_events, history, started>>

\* ------------------------------------------------------ Planning Agent
\* planning_agent.py 171-177: google, and arxiv for an academic query.
PlannerSources == {<<"google">>, <<"google", "arxiv">>}

\* PlanningAgent.execute up to the keyword generation (an LLM call).
PlanBegin(r) ==
    /\ Selected(r, "Planning Agent")
    /\ LET q == IF StateOf(r).query = NoRun THEN r ELSE StateOf(r).query
       IN /\ shared' = Stored(r, [StateOf(r) EXCEPT !.query = q])
          /\ frame' = [frame EXCEPT ![r] = [NoFrame EXCEPT !.query_id = q]]
    /\ pc' = [pc EXCEPT ![r] = "planning"]
    /\ UNCHANGED <<cfg, web, bus, store, queries_db, stream, workflow, pending, round_index, search_events, history,
                   outcome>>

\* planning_agent.py 105-106: set_shared_state("research_plan", plan).
PlanWritten(s, r, plan) == [s EXCEPT !.research_plan = plan]

\* The keywords arrived: the plan is built, stored and returned.
PlanReturn(r, steps, sources) ==
    /\ pc[r] = "planning"
    /\ shared' = Stored(r, PlanWritten(StateOf(r), r,
                    [by |-> r, query_id |-> frame[r].query_id, steps |-> steps,
                     sources |-> sources]))
    /\ frame' = [frame EXCEPT ![r] = StageLeft(@)]
    /\ StageReturned(r)
    /\ UNCHANGED <<cfg, web, bus, store, queries_db, stream, workflow, pending, search_events, history, outcome,
                   started>>

\* The LLM call (or the validation of the plan) raised.
PlanRaise(r) ==
    /\ pc[r] = "planning"
    /\ StageRaised(r, "PlanningError")
    /\ frame' = [frame EXCEPT ![r] = StageLeft(@)]
    /\ UNCHANGED <<cfg, web, bus, store, queries_db, stream, workflow, pending, shared, search_events, history,
                   started>>

\* ------------------------------------------------------- Reflect Agent
\* ReflectAgent.execute: without results it returns at once and stores nothing;
\* with results it calls self.update_progress, which no class defines.
Reflect(r) ==
    /\ Selected(r, "Reflect Agent")
    /\ IF StateOf(r).search_results.items = <<>>
       THEN StageReturned(r) /\ outcome' = outcome
       ELSE StageRaised(r, "AttributeError: update_progress")
    /\ UNCHANGED <<cfg, web, bus, store, queries_db, stream, workflow, pending, shared, frame, search_events, history>>

\* ----------------------------------------------- Content Writing Agent
\* content_agent.py 169: at most 10 citations.
CitationLimit == 10

RECURSIVE InsertByRelevance(_, _)
\* result placed behind every result whose score is not smaller.
InsertByRelevance(sorted, result) ==
    IF sorted = <<>> THEN <<result>>
    ELSE IF Head(sorted).relevance_score >= result.relevance_score
         THEN <<Head(sorted)>> \o InsertByRelevance(Tail(sorted), result)
         ELSE <<result>> \o sorted

RECURSIVE sorted_results(_)
\* content_agent.py 141-146: sorted(results, key=relevance_score,
\* reverse=True); results of equal score keep their order.
sorted_results(results) ==
    IF results = <<>> THEN <<>>
    ELSE InsertByRelevance(sorted_results(SubSeq(results, 1, Len(results) - 1)),
                           results[Len(results)])

\* content_agent.py 158-164: the citation of a result.
SourceCitation(result, citation_number) ==
    [id |-> result.id, url |-> result.url, citation_number |-> citation_number]

RECURSIVE Cited(_, _, _)
\* content_agent.py 149-170: the loop over the sorted results: a result whose
\* URL was seen is skipped, the others are cited and numbered from 1, and the
\* loop ends with the tenth citation.
Cited(sorted, citations, seen_urls) ==
    IF sorted = <<>> THEN citations
    ELSE LET result == Head(sorted)
             cited == Append(citations, SourceCitation(result, Len(citations) + 1))
         IN IF result.url \in seen_urls
            THEN Cited(Tail(sorted), citations, seen_urls)
            ELSE IF Len(cited) >= CitationLimit THEN cited
                 ELSE Cited(Tail(sorted), cited, seen_urls \cup {result.url})

prepare_sourcesUnsorted(results) == Cited(results, <<>>, {})

\* content_agent.py 128-172: _prepare_sources.
prepare_sources(results) == Cited(sorted_results(results), <<>>, {})

\* ContentWritingAgent.execute up to the content generation (an LLM call):
\* the results are read and the citations prepared.
ContentBegin(r) ==
    /\ Selected(r, "Content Writing Agent")
    /\ IF StateOf(r).search_results.items = <<>>
       THEN /\ StageRaised(r, "ValueError: No search results available for synthesis")
            /\ frame' = frame
       ELSE /\ pc' = [pc EXCEPT ![r] = "content"]
            /\ frame' = [frame EXCEPT
                  ![r].query_id = StateOf(r).query,
                  ![r].results = StateOf(r).search_results.items,
                  ![r].sources = prepare_sources(StateOf(r).search_results.items)]
            /\ UNCHANGED <<round_index, outcome>>
    /\ UNCHANGED <<cfg, web, bus, store, queries_db, stream, workflow, pending, shared, search_events, history>>

AnswerWrittenResultsCleared(s, r) ==
    [s EXCEPT !.synthesized_answer = r, !.search_results = NoResults]

\* content_agent.py 113-114: set_shared_state("synthesized_answer", answer).
AnswerWritten(s, r) == [s EXCEPT !.synthesized_answer = r]

\* The content arrived (or the fallback content was built): the answer is stored.
ContentReturn(r) ==
    /\ pc[r] = "content"
    /\ shared' = Stored(r, AnswerWritten(StateOf(r), r))
    /\ frame' = [frame EXCEPT ![r] = StageLeft(@)]
    /\ StageReturned(r)
    /\ UNCHANGED <<cfg, web, bus, store, queries_db, stream, workflow, pending, search_events, history, outcome,
                   started>>

\* ------------------------------------------------------ Research Agent
Min(a, b) == IF a < b THEN a ELSE b
Max(a, b) == IF a > b THEN a ELSE b

RECURSIVE Concat(_)
\* results.extend(chunk) for every chunk, in order.
Concat(chunks) ==
    IF chunks = <<>> THEN <<>> ELSE Head(chunks) \o Concat(Tail(chunks))

\* research_plan.py SearchStep: the keywords of step k of a plan.
StepKeywords(plan, k) == <<[query_id |-> plan.query_id, group |-> k]>>

\* research_agent.py 225: search_query = " ".join(step.keywords).
SearchQuery(keywords) == [sep |-> " ", parts |-> keywords]

\* What a provider returns for a step: n results tagged with the query id.
Items(source, k, query_id, n) ==
    [j \in 1..n |-> [source |-> source, step |-> k, idx |-> j,
                     query_id |-> query_id, relevance_score |-> NoScore,
                     id |-> <<source, k, j>>, url |-> <<source, j>>]]

\* research_agent.py 283-286: the preview of a result in a completed event.
Preview(item) == [source |-> item.source, step |-> item.step, idx |-> item.idx]

PreviewsAll(items) == [j \in 1..Len(items) |-> Preview(items[j])]

\* research_agent.py 283-286: source_results[:3].
Previews(items) ==
    [j \in 1..Min(Len(items), PreviewLimit) |-> Preview(items[j])]

\* research_agent.py 231-244: the tool of a source.  The third test reads
\* SearchSource.DUCKDUCKGO, which the enum does not have: AttributeError.
run_source_tool(source, c) ==
    IF source = "google" /\ c.google_enabled THEN "Google"
    ELSE IF source = "arxiv" /\ c.arxiv_enabled THEN "arXiv"
    ELSE IF "duckduckgo" \notin SearchSource THEN "AttributeError"
    ELSE IF "bing" \notin SearchSource THEN "AttributeError"
    ELSE ""

NewTask == [st |-> "new", tool |-> "", ev |-> 0, res |-> <<>>, error |-> ""]

StepFrameUnbounded(f, plan, k, c) ==
    [f EXCEPT !.plan = plan, !.step = k,
              !.tasks = [i \in 1..Len(plan.sources) |-> NewTask],
              !.sem = Len(plan.sources)]

\* research_agent.py 227, 300: a semaphore and one task per source of the step.
StepFrame(f, plan, k, c) ==
    [f EXCEPT !.plan = plan, !.step = k,
              !.tasks = [i \in 1..Len(plan.sources) |-> NewTask],
              !.sem = c.search_concurrency]

\* research_agent.py 386-426: _calculate_statistics reads
\* SearchSource.DUCKDUCKGO as soon as there is a result to count.
calculate_statistics(items) ==
    IF items = <<>> THEN "ok"
    ELSE IF "duckduckgo" \notin SearchSource THEN "AttributeError"
    ELSE "ok"

\* research_agent.py 186-187: set_shared_state("search_results", scored).
ResultsWritten(s, r, items) ==
    [s EXCEPT !.search_results = [by |-> r, items |-> items]]

GatherBeginStoresEmpty(r) ==
    /\ Selected(r, "Research Agent")
    /\ search_events' = [search_events EXCEPT ![workflow[r]] = <<>>]
    /\ IF StateOf(r).research_plan.by = NoRun
       THEN /\ StageRaised(r, "ValueError: Research plan not found in context")
            /\ shared' = Stored(r, ResultsWritten(StateOf(r), r, <<>>))
            /\ frame' = frame
       ELSE /\ pc' = [pc EXCEPT ![r] = "fanout"]
            /\ frame' = [frame EXCEPT ![r] =
                  StepFrame([NoFrame EXCEPT !.query_id = StateOf(r).query],
                            StateOf(r).research_plan, 1, cfg)]
            /\ UNCHANGED <<shared, round_index, outcome>>
    /\ UNCHANGED <<cfg, web, bus, store, queries_db, stream, workflow, pending, history>>

\* ResearchAgent.execute up to the fan-out of the first step.
GatherBegin(r) ==
    /\ Selected(r, "Research Agent")
    /\ search_events' = [search_events EXCEPT ![workflow[r]] = <<>>]
    /\ IF StateOf(r).research_plan.by = NoRun
       THEN /\ StageRaised(r, "ValueError: Research plan not found in context")
            /\ frame' = frame
       ELSE /\ pc' = [pc EXCEPT ![r] = "fanout"]
            /\ frame' = [frame EXCEPT ![r] =
                  StepFrame([NoFrame EXCEPT !.query_id = StateOf(r).query],
                            StateOf(r).research_plan, 1, cfg)]
            /\ UNCHANGED <<round_index, outcome>>
    /\ UNCHANGED <<cfg, web, bus, store, queries_db, stream, workflow, pending, shared, history>>

\* research_agent.py 254, 287, 292: the copy {"type": "search_event", **event}
\* handed to emit_event.
Snapshot(event) == [type |-> "search_event", event |-> event]

PublishedContentShared(r, k) ==
    LET id == history[r][k].event.id
    IN IF id[2] \in DOMAIN frame[r].evs THEN frame[r].evs[id[2]]
       ELSE history[r][k].event

\* What the consumer of the k-th entry of the history of run r holds: the
\* dict {**event} built for emit_event, not the dict in search_events.
PublishedContent(r, k) == history[r][k].event

\* research_agent.py 256-280: the call of the provider of an event.
ProviderCall(event) == [type |-> "provider_call", id |-> event.id, tool |-> event.tool]

SearchingEventPerStep(f, r, tool, k) ==
    [id |-> <<r, k>>, tool |-> tool, query |-> SearchQuery(StepKeywords(f.plan, k)),
     keywords |-> StepKeywords(f.plan, k), status |-> "searching",
     results_count |-> NoCount, results |-> <<>>, error |-> ""]

\* research_agent.py 246-253: the event of a provider call, with a fresh uuid4.
SearchingEvent(f, r, tool, k) ==
    [id |-> <<r, Len(f.evs) + 1>>, tool |-> tool,
     query |-> SearchQuery(StepKeywords(f.plan, k)),
     keywords |-> StepKeywords(f.plan, k), status |-> "searching",
     results_count |-> NoCount, results |-> <<>>, error |-> ""]

\* run_source from the semaphore to the provider call: the slot is taken, the
\* tool chosen, the searching event recorded and emitted, the provider called.
RunSourceStart(r, i) ==
    /\ i \in DOMAIN frame[r].tasks
    /\ frame[r].tasks[i].st = "new"
    /\ frame[r].sem > 0
    /\ LET f == frame[r]
           tool == run_source_tool(f.plan.sources[i], cfg)
           event == SearchingEvent(f, r, tool, f.step)
       IN IF tool \in {"AttributeError", ""}
          THEN /\ frame' = [frame EXCEPT ![r].tasks[i].st =
                              IF tool = "" THEN "returned" ELSE "raised"]
               /\ UNCHANGED <<search_events, history>>
          ELSE /\ frame' = [frame EXCEPT
                     ![r].tasks[i] = [NewTask EXCEPT !.st = "calling", !.tool = tool,
                                                     !.ev = Len(f.evs) + 1],
                     ![r].evs = Append(@, event),
                     ![r].sem = @ - 1]
               /\ search_events' = [search_events EXCEPT ![workflow[r]] =
                                       Append(@, event.id)]
               /\ history' = [history EXCEPT ![r] =
                     @ \o <<Snapshot(event), ProviderCall(event)>>]
    /\ UNCHANGED <<cfg, web, bus, store, queries_db, stream, workflow, pending, shared, pc, round_index, outcome, started>>

\* research_agent.py 281-286: the event of a call that returned.
CompletedEvent(event, items) ==
    [event EXCEPT !.status = "completed", !.results_count = Len(items),
                  !.results = Previews(items)]

\* The provider returned n results: the event is completed and emitted, the
\* slot released, the results returned to gather.
ProviderReturn(r, i, n) ==
    /\ i \in DOMAIN frame[r].tasks
    /\ frame[r].tasks[i].st = "calling"
    /\ LET f == frame[r]
           t == f.tasks[i]
           items == Items(f.plan.sources[i], f.step, f.query_id, n)
           event == CompletedEvent(f.evs[t.ev], items)
       IN /\ frame' = [frame EXCEPT ![r].tasks[i].st = "returned",
                                    ![r].tasks[i].res = items,
                                    ![r].evs[t.ev] = event,
                                    ![r].sem = @ + 1]
          /\ history' = [history EXCEPT ![r] = Append(@, Snapshot(event))]
    /\ UNCHANGED <<cfg, web, bus, store, queries_db, stream, workflow, pending, shared, pc, round_index, search_events,
                   outcome, started>>

FailedEventAsCompleted(event, error) ==
    [event EXCEPT !.status = "completed", !.results_count = 0]

\* research_agent.py 290-291: the event of a call that raised.
FailedEvent(event, error) ==
    [event EXCEPT !.status = "failed", !.error = error]

ProviderRaiseKeepsSlot(r, i) ==
    /\ i \in DOMAIN frame[r].tasks
    /\ frame[r].tasks[i].st = "calling"
    /\ LET f == frame[r]
           t == f.tasks[i]
           event == FailedEvent(f.evs[t.ev], "ProviderError")
       IN /\ frame' = [frame EXCEPT ![r].tasks[i].st = "returned",
                                    ![r].tasks[i].error = "ProviderError",
                                    ![r].evs[t.ev] = event]
          /\ history' = [history EXCEPT ![r] = Append(@, Snapshot(event))]
    /\ UNCHANGED <<cfg, web, bus, store, queries_db, stream, workflow, pending, shared, pc,
                   round_index, search_events, outcome, started>>

\* The provider raised: the event is failed and emitted, the slot released,
\* an empty list returned to gather.
ProviderRaise(r, i) ==
    /\ i \in DOMAIN frame[r].tasks
    /\ frame[r].tasks[i].st = "calling"
    /\ LET f == frame[r]
           t == f.tasks[i]
           event == FailedEvent(f.evs[t.ev], "ProviderError")
       IN /\ frame' = [frame EXCEPT ![r].tasks[i].st = "returned",
                                    ![r].tasks[i].error = "ProviderError",
                                    ![r].evs[t.ev] = event,
                                    ![r].sem = @ + 1]
          /\ history' = [history EXCEPT ![r] = Append(@, Snapshot(event))]
    /\ UNCHANGED <<cfg, web, bus, store, queries_db, stream, workflow, pending, shared, pc, round_index, search_events,
                   outcome, started>>

\* asyncio.gather without return_exceptions: the first exception of a task is
\* raised to the awaiting _execute_search_step (the other tasks keep running).
FanoutRaised(f) == \E i \in DOMAIN f.tasks : f.tasks[i].st = "raised"

FanoutReturnedAny(f) == \E i \in DOMAIN f.tasks : f.tasks[i].st = "returned"

\* research_agent.py 302: gather returns when every task has returned.
FanoutReturned(f) == \A i \in DOMAIN f.tasks : f.tasks[i].st = "returned"

StepResultsReversed(f) ==
    Concat([i \in 1..Len(f.tasks) |-> f.tasks[Len(f.tasks) + 1 - i].res])

\* research_agent.py 302-306: the chunks of the sources, in source order.
StepResults(f) == Concat([i \in 1..Len(f.tasks) |-> f.tasks[i].res])

\* A task of the fan-out raised: the step, the stage and the run fail.
FanoutRaise(r) ==
    /\ pc[r] = "fanout"
    /\ FanoutRaised(frame[r])
    /\ StageRaised(r, "AttributeError: DUCKDUCKGO")
    /\ UNCHANGED <<cfg, web, bus, store, queries_db, stream, workflow, pending, shared, frame, search_events, history,
                   started>>

ScoringFrameUnbounded(f, all, c) ==
    [f EXCEPT !.all_results = all, !.tasks = <<>>, !.sem = 0,
              !.scoring = [j \in 1..Len(all) |-> "new"],
              !.ssem = Len(all)]

\* research_agent.py 323, 345: a semaphore and one scoring task per result.
ScoringFrame(f, all, c) ==
    [f EXCEPT !.all_results = all, !.tasks = <<>>, !.sem = 0,
              !.scoring = [j \in 1..Len(all) |-> "new"],
              !.ssem = c.scoring_concurrency]

\* Every task of the step returned: the results are collected; then the next
\* step is fanned out, or the scoring pass started, or (nothing to score) the
\* empty list stored and the stage left.
FanoutDone(r) ==
    /\ pc[r] = "fanout"
    /\ FanoutReturned(frame[r])
    /\ LET f == frame[r]
           all == f.all_results \o StepResults(f)
       IN IF f.step < f.plan.steps
          THEN /\ frame' = [frame EXCEPT ![r] =
                     StepFrame([f EXCEPT !.all_results = all], f.plan, f.step + 1, cfg)]
               /\ UNCHANGED <<shared, pc, round_index, outcome>>
          ELSE IF all = <<>>
          THEN /\ shared' = Stored(r, ResultsWritten(StateOf(r), r, <<>>))
               /\ frame' = [frame EXCEPT ![r] = StageLeft(f)]
               /\ StageReturned(r)
               /\ outcome' = outcome
          ELSE /\ frame' = [frame EXCEPT ![r] = ScoringFrame(f, all, cfg)]
               /\ pc' = [pc EXCEPT ![r] = "scoring"]
               /\ UNCHANGED <<shared, round_index, outcome>>
    /\ UNCHANGED <<cfg, web, bus, store, queries_db, stream, workflow, pending, search_events, history, started>>

\* -------------------------------------------------------------- scoring
\* Scores are counted in 1/300: the float 1.0.
ScoreUnit == 300

\* An answer of the LLM that float() cannot parse.
Unparsable == 1000

\* The answers of the LLM the scoring pass is run with: below 0, inside the
\* range, above 1, no number.
ScoringAnswers == {-60, 90, 360, Unparsable}

analyze_relevance_unclamped(raw) ==
    IF raw = Unparsable THEN ScoreUnit \div 2 ELSE raw

\* azure_openai_service.py 189-196: the parsed score clamped to [0, 1], 0.5
\* when the answer is no number.
analyze_relevance(raw) ==
    IF raw = Unparsable THEN ScoreUnit \div 2 ELSE Max(0, Min(ScoreUnit, raw))

\* str.lower().
LowerChar(c) == IF c = "A" THEN "a" ELSE IF c = "B" THEN "b" ELSE c
Lower(text) == [k \in 1..Len(text) |-> LowerChar(text[k])]

\* str.split(): the maximal runs of characters that are no whitespace.
IsSpace(c) == c = " "
Split(text) ==
    {SubSeq(text, p[1], p[2]) : p \in
        {p \in (1..Len(text)) \X (1..Len(text)) :
            /\ p[1] <= p[2]
            /\ \A k \in p[1]..p[2] : ~IsSpace(text[k])
            /\ p[1] = 1 \/ IsSpace(text[p[1] - 1])
            /\ p[2] = Len(text) \/ IsSpace(text[p[2] + 1])}}

\* f"{title} {snippet}".
TitleAndSnippet(title, snippet) == title \o <<" ">> \o snippet

\* term in text: the term is a substring of the text.
Contains(text, term) ==
    \E i \in 0..(Len(text) - Len(term)) : SubSeq(text, i + 1, i + Len(term)) = term

\* search_result.py 24, 26: the title and the snippet of a result.
TitleOf(item) == web[item.source].title
SnippetOf(item) == web[item.source].snippet

\* research_agent.py 349-384: _basic_relevance_score.
basic_relevance_score(query, title, snippet) ==
    LET query_terms == Split(Lower(query))
        text == Lower(TitleAndSnippet(title, snippet))
        matches == Cardinality({t \in query_terms : Contains(text, t)})
        title_matches == Cardinality({t \in query_terms : Contains(Lower(title), t)})
        score == (matches * ScoreUnit) \div Cardinality(query_terms)
    IN IF query_terms = {} THEN ScoreUnit \div 2
       ELSE IF title_matches > 0
            THEN Min(ScoreUnit,
                     score + (title_matches * (ScoreUnit \div 5)) \div Cardinality(query_terms))
            ELSE score

\* score_one from the semaphore to the scoring call.
ScoreStart(r, j) ==
    /\ j \in DOMAIN frame[r].scoring
    /\ frame[r].scoring[j] = "new"
    /\ frame[r].ssem > 0
    /\ frame' = [frame EXCEPT ![r].scoring[j] = "calling", ![r].ssem = @ - 1]
    /\ UNCHANGED <<cfg, web, bus, store, queries_db, stream, workflow, pending, shared, pc, round_index, search_events,
                   history, outcome, started>>

Scored(f, j, score) ==
    [f EXCEPT !.scoring[j] = "done", !.ssem = @ + 1,
              !.all_results[j].relevance_score = score]

\* The scoring call returned: the score is assigned, the slot released.
ScoreReturn(r, j, raw) ==
    /\ j \in DOMAIN frame[r].scoring
    /\ frame[r].scoring[j] = "calling"
    /\ frame' = [frame EXCEPT ![r] = Scored(@, j, analyze_relevance(raw))]
    /\ UNCHANGED <<cfg, web, bus, store, queries_db, stream, workflow, pending, shared, pc, round_index, search_events,
                   history, outcome, started>>

ScoreRaiseRetried(r, j) ==
    /\ j \in DOMAIN frame[r].scoring
    /\ frame[r].scoring[j] = "calling"
    /\ frame' = [frame EXCEPT ![r].scoring[j] = "new", ![r].ssem = @ + 1]
    /\ UNCHANGED <<cfg, web, bus, store, queries_db, stream, workflow, pending, shared, pc, round_index, search_events,
                   history, outcome, started>>

\* The scoring call raised: the fallback score is assigned, the slot released.
ScoreRaise(r, j) ==
    /\ j \in DOMAIN frame[r].scoring
    /\ frame[r].scoring[j] = "calling"
    /\ LET item == frame[r].all_results[j]
       IN frame' = [frame EXCEPT ![r] =
            Scored(@, j, basic_relevance_score(web.query, TitleOf(item),
                                               SnippetOf(item)))]
    /\ UNCHANGED <<cfg, web, bus, store, queries_db, stream, workflow, pending, shared, pc, round_index, search_events,
                   history, outcome, started>>

RECURSIVE InsertDescBeforeEqual(_, _)
InsertDescBeforeEqual(sorted, x) ==
    IF sorted = <<>> THEN <<x>>
    ELSE IF Head(sorted).relevance_score > x.relevance_score
         THEN <<Head(sorted)>> \o InsertDescBeforeEqual(Tail(sorted), x)
         ELSE <<x>> \o sorted

RECURSIVE InsertDesc(_, _)
\* x placed behind every element whose score is not smaller.
InsertDesc(sorted, x) ==
    IF sorted = <<>> THEN <<x>>
    ELSE IF Head(sorted).relevance_score >= x.relevance_score
         THEN <<Head(sorted)>> \o InsertDesc(Tail(sorted), x)
         ELSE <<x>> \o sorted

RECURSIVE SortByScoreDesc(_)
\* research_agent.py 184: list.sort(key=relevance_score, reverse=True), stable.
SortByScoreDesc(items) ==
    IF items = <<>> THEN <<>>
    ELSE InsertDesc(SortByScoreDesc(SubSeq(items, 1, Len(items) - 1)),
                    items[Len(items)])

ScoringDoneBeforeScored(r) ==
    /\ pc[r] = "scoring"
    /\ LET sorted == SortByScoreDesc(frame[r].all_results)
       IN /\ shared' = Stored(r, ResultsWritten(StateOf(r), r, sorted))
          /\ IF calculate_statistics(sorted) = "ok"
             THEN StageReturned(r) /\ outcome' = outcome
             ELSE StageRaised(r, "AttributeError: DUCKDUCKGO")
    /\ frame' = [frame EXCEPT ![r] = StageLeft(@)]
    /\ UNCHANGED <<cfg, web, bus, store, queries_db, stream, workflow, pending, search_events, history, started>>

\* Every scoring task is done: the results are sorted and stored, then the
\* statistics computed and the stage left.
ScoringDone(r) ==
    /\ pc[r] = "scoring"
    /\ \A j \in DOMAIN frame[r].scoring : frame[r].scoring[j] = "done"
    /\ LET sorted == SortByScoreDesc(frame[r].all_results)
       IN /\ shared' = Stored(r, ResultsWritten(StateOf(r), r, sorted))
          /\ IF calculate_statistics(sorted) = "ok"
             THEN StageReturned(r) /\ outcome' = outcome
             ELSE StageRaised(r, "AttributeError: DUCKDUCKGO")
    /\ frame' = [frame EXCEPT ![r] = StageLeft(@)]
    /\ UNCHANGED <<cfg, web, bus, store, queries_db, stream, workflow, pending, search_events, history, started>>

\* ------------------------------------------------------------ event bus
\* One agent publishing into the asyncio.Queue that the streaming API put
\* under "_event_queue", and the API draining it.  The agent runs a program of
\* publish calls: log_step (a task created for emit_event), emit_event
\* (awaited), and await (a suspension on something else, an LLM or a provider).
\* Event k is the event of the k-th call of the program.  Unit 0 is the
\* coroutine of the agent, unit k the task log_step created for event k.
PublishCalls == {"log_step", "emit_event", "await"}

Agent == 0

\* The state of the bus before the agent runs a program.
BusWith(attached, maxsize, program) ==
    [attached |-> attached, maxsize |-> maxsize, program |-> program, pos |-> 1,
     agent |-> "running", task |-> [k \in DOMAIN program |-> "none"],
     ready |-> <<>>, putters |-> <<>>, queue |-> <<>>, enqueued |-> <<>>,
     delivered |-> <<>>, waited |-> {}]

\* The variables of the pipeline, which the event bus leaves alone.
pipeline ==
    <<cfg, web, store, queries_db, stream, workflow, pending, shared, pc, round_index, frame, search_events,
      history, outcome, started>>

\* Queue.put_nowait on a queue with room.
Enqueued(b, k) == [b EXCEPT !.queue = Append(@, k), !.enqueued = Append(@, k)]

\* emit_event returned to unit u: the agent goes on with its next call, a task
\* of log_step is done.
Returned(b, u) ==
    IF u = Agent THEN [b EXCEPT !.agent = "running", !.pos = @ + 1]
    ELSE [b EXCEPT !.task[u] = "done"]

\* The event unit u is publishing.
EventOf(b, u) == IF u = Agent THEN b.pos ELSE u

\* asyncio.Queue.put: while the queue is full the caller waits on a new
\* future at the end of the putters; then put_nowait.  waited records the
\* events whose put has waited.
queue_put(b, u) ==
    IF Len(b.queue) >= b.maxsize
    THEN LET w == [b EXCEPT !.putters = Append(@, u),
                            !.waited = @ \cup {EventOf(b, u)}]
         IN IF u = Agent THEN [w EXCEPT !.agent = "waiting"]
            ELSE [w EXCEPT !.task[u] = "waiting"]
    ELSE Returned(Enqueued(b, EventOf(b, u)), u)

emit_event_dropping(b, u) ==
    IF ~b.attached THEN Returned(b, u)
    ELSE IF Len(b.queue) < b.maxsize THEN Returned(Enqueued(b, EventOf(b, u)), u)
    ELSE Returned(b, u)

emit_event_buffering(b, u) ==
    IF Len(b.queue) < b.maxsize \/ ~b.attached
    THEN Returned(Enqueued(b, EventOf(b, u)), u)
    ELSE queue_put(b, u)

\* base.py 112-127: no queue, return; put_nowait; when that raises, await
\* queue.put.
emit_event(b, u) ==
    IF ~b.attached THEN Returned(b, u)
    ELSE IF Len(b.queue) < b.maxsize THEN Returned(Enqueued(b, EventOf(b, u)), u)
    ELSE queue_put(b, u)

\* base.py 92-110: log_step creates a task for emit_event and returns.
log_step(b) ==
    [b EXCEPT !.task[b.pos] = "ready", !.ready = Append(@, b.pos), !.pos = @ + 1]

\* The agent, running, makes its next call or returns.
AgentStep ==
    /\ bus.agent = "running"
    /\ bus' = IF bus.pos > Len(bus.program) THEN [bus EXCEPT !.agent = "done"]
              ELSE IF bus.program[bus.pos] = "log_step" THEN log_step(bus)
              ELSE IF bus.program[bus.pos] = "emit_event" THEN emit_event(bus, Agent)
              ELSE [bus EXCEPT !.agent = "suspended"]
    /\ UNCHANGED pipeline

\* What the agent awaited is there: the loop schedules the agent.
AgentWoken ==
    /\ bus.agent = "suspended"
    /\ bus' = [bus EXCEPT !.agent = "scheduled", !.ready = Append(@, Agent)]
    /\ UNCHANGED pipeline

\* The loop, no coroutine running, runs the callback that is ready first: a
\* task of log_step starts emit_event, a woken putter tries again, the agent
\* goes on behind its await.
RunReady ==
    /\ bus.agent # "running"
    /\ bus.ready # <<>>
    /\ LET u == Head(bus.ready)
           b == [bus EXCEPT !.ready = Tail(@)]
       IN bus' = IF u = Agent
                 THEN IF bus.agent = "woken" THEN queue_put(b, Agent)
                      ELSE Returned(b, Agent)
                 ELSE IF bus.task[u] = "woken" THEN queue_put(b, u)
                      ELSE emit_event(b, u)
    /\ UNCHANGED pipeline

\* Queue.get of the streaming API: the first event is delivered and the first
\* waiting putter woken.
Consume ==
    /\ bus.agent # "running"
    /\ bus.queue # <<>>
    /\ LET b == [bus EXCEPT !.queue = Tail(@), !.delivered = Append(@, Head(bus.queue))]
       IN bus' = IF bus.putters = <<>> THEN b
                 ELSE LET u == Head(bus.putters)
                          w == [b EXCEPT !.putters = Tail(@), !.ready = Append(@, u)]
                      IN IF u = Agent THEN [w EXCEPT !.agent = "woken"]
                         ELSE [w EXCEPT !.task[u] = "woken"]
    /\ UNCHANGED pipeline

\* ---------------------------------------------------- WorkflowStateManager
\* Tasks calling add_search_result, add_search_results and get_search_results
\* of one WorkflowStateManager.  Every method body runs without a suspension
\* between taking and releasing the lock, so a call is one step and the lock
\* is free between steps.  Result j of the call of task t is <<t, j>>.
Adders == 1..MaxAdders

\* telemetry.py 139: log_search(self, query_id, source, results_count).
log_search_parameters == {"query_id", "source", "results_count"}

\* state_manager.py 168-173, 186-191: the keywords log_search is called with.
log_search_keywords == {"query", "source", "result_count", "success"}

\* A call with keywords: TypeError unless they are the parameters.
Called(parameters, keywords) ==
    IF keywords = parameters THEN "returned" ELSE "TypeError"

\* The calls a task can make: one result added, a list of 0..MaxBatch results
\* added, the results read.
StoreCalls ==
    {[op |-> "add_search_result", n |-> 1, st |-> "new", got |-> <<>>]} \cup
    {[op |-> "add_search_results", n |-> n, st |-> "new", got |-> <<>>] : n \in 0..MaxBatch} \cup
    {[op |-> "get_search_results", n |-> 0, st |-> "new", got |-> <<>>]}

StoreWith(calls) == [lock |-> Unlocked, search_results |-> <<>>, call |-> calls]

\* The results task t adds.
ResultsOf(t) == [j \in 1..store.call[t].n |-> <<t, j>>]

\* state_manager.py 158-173: append under the lock, then log_search.
add_search_result(t) ==
    /\ t \in DOMAIN store.call
    /\ store.call[t].op = "add_search_result"
    /\ store.call[t].st = "new"
    /\ store.lock = Unlocked
    /\ store' = [store EXCEPT
          !.search_results = @ \o ResultsOf(t),
          !.call[t].st = Called(log_search_parameters, log_search_keywords)]
    /\ UNCHANGED <<cfg, web, bus, queries_db, stream, workflow, pending, shared, pc, round_index, frame,
                   search_events, history, outcome, started>>

\* state_manager.py 175-191: extend under the lock, then log_search if the
\* list was not empty.
add_search_results(t) ==
    /\ t \in DOMAIN store.call
    /\ store.call[t].op = "add_search_results"
    /\ store.call[t].st = "new"
    /\ store.lock = Unlocked
    /\ store' = [store EXCEPT
          !.search_results = @ \o ResultsOf(t),
          !.call[t].st = IF store.call[t].n = 0 THEN "returned"
                         ELSE Called(log_search_parameters, log_search_keywords)]
    /\ UNCHANGED <<cfg, web, bus, queries_db, stream, workflow, pending, shared, pc, round_index, frame,
                   search_events, history, outcome, started>>

\* state_manager.py 193-201: a copy of the list, under the lock.
get_search_results(t) ==
    /\ t \in DOMAIN store.call
    /\ store.call[t].op = "get_search_results"
    /\ store.call[t].st = "new"
    /\ store.lock = Unlocked
    /\ store' = [store EXCEPT !.call[t].st = "returned",
                              !.call[t].got = store.search_results]
    /\ UNCHANGED <<cfg, web, bus, queries_db, stream, workflow, pending, shared, pc, round_index, frame,
                   search_events, history, outcome, started>>

\* state_manager.py 48-57: the dict _state with its entry "research_plan"
\* (0 is None, t the value task t stored) and the list its entry
\* "search_results" is bound to.
StoreStateWith(calls) ==
    [lock |-> Unlocked, search_results |-> <<>>, call |-> calls, research_plan |-> 0]

\* Further calls of a task: the whole state read, an entry set to a new value
\* (a new empty list for "search_results").  A dict a call returned has its
\* own entry research_plan, and as entry search_results either the list the
\* store is bound to ("bound") or another list, whose elements are in got.
SnapshotCalls ==
    {[op |-> "get_all_state", n |-> 0, st |-> "new", got |-> <<>>,
      research_plan |-> 0, list |-> ""]} \cup
    {[op |-> "set_state", n |-> 0, st |-> "new", got |-> <<>>, key |-> k] :
        k \in {"research_plan", "search_results"}}

\* state_manager.py 80-90: self._state[key] = value under the lock.  A list
\* that was bound to "search_results" lives on in the dicts that hold it.
set_state(t) ==
    /\ t \in DOMAIN store.call
    /\ store.call[t].op = "set_state"
    /\ store.call[t].st = "new"
    /\ store.lock = Unlocked
    /\ IF store.call[t].key = "research_plan"
       THEN store' = [store EXCEPT !.research_plan = t, !.call[t].st = "returned"]
       ELSE store' = [store EXCEPT
               !.search_results = <<>>,
               !.call = [u \in DOMAIN store.call |->
                   IF u = t THEN [store.call[u] EXCEPT !.st = "returned"]
                   ELSE IF store.call[u].op = "get_all_state" /\ store.call[u].list = "bound"
                        THEN [store.call[u] EXCEPT !.list = "other",
                                                   !.got = store.search_results]
                        ELSE store.call[u]]]
    /\ UNCHANGED <<cfg, web, bus, queries_db, stream, workflow, pending, shared, pc, round_index, frame,
                   search_events, history, outcome, started>>

\* dict(self._state): a new dict with the entries of _state, the values
\* themselves not copied.
ShallowCopy(call, s) ==
    [call EXCEPT !.st = "returned", !.research_plan = s.research_plan, !.list = "bound"]

\* state_manager.py 92-100: dict(self._state) under the lock.
get_all_state(t) ==
    /\ t \in DOMAIN store.call
    /\ store.call[t].op = "get_all_state"
    /\ store.call[t].st = "new"
    /\ store.lock = Unlocked
    /\ store' = [store EXCEPT !.call[t] = ShallowCopy(@, store)]
    /\ UNCHANGED <<cfg, web, bus, queries_db, stream, workflow, pending, shared, pc, round_index, frame,
                   search_events, history, outcome, started>>

\* The caller of get_all_state replaces a top-level entry of the dict it was
\* returned; the caller of get_search_results adds an element to its list or
\* removes the first one.
caller_changes(t, kind) ==
    /\ t \in DOMAIN store.call
    /\ store.call[t].st = "returned"
    /\ \/ /\ store.call[t].op = "get_all_state"
          /\ kind = "research_plan"
          /\ store' = [store EXCEPT !.call[t].st = "changed",
                                    !.call[t].research_plan = 0 - t]
       \/ /\ store.call[t].op = "get_all_state"
          /\ kind = "search_results"
          /\ store' = [store EXCEPT !.call[t].st = "changed",
                                    !.call[t].list = "other",
                                    !.call[t].got = <<>>]
       \/ /\ store.call[t].op = "get_search_results"
          /\ kind = "append"
          /\ store' = [store EXCEPT !.call[t].st = "changed",
                                    !.call[t].got = Append(@, <<t, 0>>)]
       \/ /\ store.call[t].op = "get_search_results"
          /\ kind = "remove"
          /\ store.call[t].got # <<>>
          /\ store' = [store EXCEPT !.call[t].st = "changed",
                                    !.call[t].got = Tail(@)]
    /\ UNCHANGED <<cfg, web, bus, queries_db, stream, workflow, pending, shared, pc, round_index, frame,
                   search_events, history, outcome, started>>

\* ------------------------------------------------------------------ API
\* group_chat.py 264-269: execute_query(self, query_content, search_sources,
\* ws_callback=None).
execute_query_required == {"query_content", "search_sources"}
execute_query_parameters == {"query_content", "search_sources", "ws_callback"}

\* api/routes.py 427-432: the keywords execute_workflow calls execute_query with.
execute_workflow_keywords ==
    {"query_id", "query_content", "search_sources", "ws_callback"}

\* A call with keywords: TypeError when a required parameter is missing or a
\* keyword is no parameter.
Bound(required, parameters, keywords) ==
    IF required \subseteq keywords /\ keywords \subseteq parameters
    THEN "bound" ELSE "TypeError"

\* api/routes.py 222-245: the query is stored as pending and a task created
\* for execute_workflow.
submit_query(q) ==
    /\ queries_db[q] = "none"
    /\ q \notin pending
    /\ pc[q] = "idle"
    /\ queries_db' = [queries_db EXCEPT ![q] = "pending"]
    /\ UNCHANGED <<cfg, web, bus, store, stream, workflow, pending, shared, pc, round_index,
                   frame, search_events, history, outcome, started>>

execute_workflowCompletesEarly(q) ==
    /\ queries_db[q] \in {"pending", "processing"}
    /\ pc[q] \in {"idle", "done", "failed"}
    /\ queries_db' = [queries_db EXCEPT ![q] =
          IF queries_db[q] = "pending" THEN "processing" ELSE "completed"]
    /\ UNCHANGED <<cfg, web, bus, store, stream, workflow, pending, shared, pc, round_index,
                   frame, search_events, history, outcome, started>>

\* api/routes.py 392-482, one coroutine segment at a time: the status set to
\* processing and the update sent; execute_query called on a new workflow
\* object; the status set to completed when the call returned, to failed when
\* anything in the try block raised.
execute_workflow(q) ==
    /\ queries_db[q] \in {"pending", "processing"}
    /\ pc[q] \in {"idle", "done", "failed"}
    /\ IF queries_db[q] = "pending"
       THEN /\ queries_db' = [queries_db EXCEPT ![q] = "processing"]
            /\ UNCHANGED <<shared, pc>>
       ELSE IF pc[q] = "idle"
       THEN IF Bound(execute_query_required, execute_query_parameters,
                     execute_workflow_keywords) = "TypeError"
            THEN /\ queries_db' = [queries_db EXCEPT ![q] = "failed"]
                 /\ UNCHANGED <<shared, pc>>
            ELSE /\ shared' = Stored(q, InitialisedState(q))
                 /\ pc' = [pc EXCEPT ![q] = "select"]
                 /\ UNCHANGED queries_db
       ELSE /\ queries_db' = [queries_db EXCEPT ![q] =
                                 IF pc[q] = "done" THEN "completed" ELSE "failed"]
            /\ UNCHANGED <<shared, pc>>
    /\ UNCHANGED <<cfg, web, bus, store, stream, workflow, pending, round_index, frame,
                   search_events, history, outcome, started>>

\* api/routes.py 442-454: the answer of the result is stored in answers_db in
\* the segment that sets the status to completed; nothing else stores one.
answers_db(q) ==
    IF queries_db[q] = "completed" /\ outcome[q].answer # NoRun
    THEN {outcome[q].answer} ELSE {}

\* api/routes.py 291-333: 404 for an unknown query, 425 unless the status is
\* completed, 404 when answers_db has no answer of the query, else the answer.
get_answer(q) ==
    IF queries_db[q] = "none" THEN [code |-> 404, answer |-> NoRun]
    ELSE IF queries_db[q] # "completed" THEN [code |-> 425, answer |-> NoRun]
    ELSE IF answers_db(q) = {} THEN [code |-> 404, answer |-> NoRun]
    ELSE [code |-> 200, answer |-> CHOOSE a \in answers_db(q) : TRUE]

\* ------------------------------------------------- execute_query_stream
\* group_chat.py 233: chunk_size = 5.
ChunkSize == 5

\* An event execute_query_stream yields.
StreamEvent(type, agent, content) == [type |-> type, agent |-> agent, content |-> content]

\* The events of a type a call has yielded.
Yielded(r, type) == {k \in DOMAIN stream[r] : stream[r][k].type = type}

\* The stream of a call has its last event.
StreamEnded(r) == Yielded(r, "workflow_complete") \cup Yielded(r, "error") # {}

\* group_chat.py 131-175: execute_query_stream up to its first yield: the
\* shared state is cleared, the query stored, workflow_start yielded.
StreamStart(r) ==
    /\ r \in pending
    /\ \A earlier \in pending : r <= earlier
    /\ pc[r] = "idle"
    /\ pending' = pending \ {r}
    /\ shared' = Stored(r, InitialisedState(r))
    /\ pc' = [pc EXCEPT ![r] = "select"]
    /\ stream' = [stream EXCEPT ![r] = <<StreamEvent("workflow_start", "", <<>>)>>]
    /\ UNCHANGED <<cfg, web, bus, store, queries_db, workflow, round_index, frame,
                   search_events, history, outcome, started>>

\* group_chat.py 182-189: the ExecutorStartedEvent of a stage arrived:
\* agent_start is yielded for agent_names[current_agent_idx].
AgentStartYielded(r) ==
    /\ stream[r] # <<>>
    /\ ~StreamEnded(r)
    /\ pc[r] \notin {"streaming", "completing", "done"}
    /\ Cardinality(Yielded(r, "agent_start")) < Len(started[r])
    /\ Cardinality(Yielded(r, "agent_start")) = Cardinality(Yielded(r, "agent_complete"))
    /\ Cardinality(Yielded(r, "agent_complete")) < Len(agent_name_sequence)
    /\ stream' = [stream EXCEPT ![r] = Append(@,
          StreamEvent("agent_start",
                      agent_name_sequence[Cardinality(Yielded(r, "agent_complete")) + 1],
                      <<>>))]
    /\ UNCHANGED <<cfg, web, bus, store, queries_db, workflow, pending, shared, pc,
                   round_index, frame, search_events, history, outcome, started>>

AgentCompleteYieldedEarly(r) ==
    /\ stream[r] # <<>>
    /\ ~StreamEnded(r)
    /\ pc[r] \notin {"streaming", "completing", "done"}
    /\ Cardinality(Yielded(r, "agent_complete")) < Cardinality(Yielded(r, "agent_start"))
    /\ stream' = [stream EXCEPT ![r] = Append(@,
          StreamEvent("agent_complete",
                      agent_name_sequence[Cardinality(Yielded(r, "agent_complete")) + 1],
                      <<>>))]
    /\ UNCHANGED <<cfg, web, bus, store, queries_db, workflow, pending, shared, pc,
                   round_index, frame, search_events, history, outcome, started>>

\* group_chat.py 192-221: the ExecutorCompletedEvent of a stage arrived:
\* agent_complete is yielded and current_agent_idx incremented.  result_data
\* is the dict the stage returned, it has no attribute research_plan or
\* search_results: no plan_created and no research_complete is yielded.
AgentCompleteYielded(r) ==
    /\ stream[r] # <<>>
    /\ ~StreamEnded(r)
    /\ pc[r] \notin {"streaming", "completing", "done"}
    /\ Cardinality(Yielded(r, "agent_complete")) < round_index[r]
    /\ Cardinality(Yielded(r, "agent_complete")) < Cardinality(Yielded(r, "agent_start"))
    /\ stream' = [stream EXCEPT ![r] = Append(@,
          StreamEvent("agent_complete",
                      agent_name_sequence[Cardinality(Yielded(r, "agent_complete")) + 1],
                      <<>>))]
    /\ UNCHANGED <<cfg, web, bus, store, queries_db, workflow, pending, shared, pc,
                   round_index, frame, search_events, history, outcome, started>>

\* The events of the stages have all been yielded.
AgentEventsYielded(r) ==
    /\ Cardinality(Yielded(r, "agent_start")) = Len(started[r])
    /\ Cardinality(Yielded(r, "agent_complete")) = round_index[r]

StreamErrorAfterEnd(r) ==
    /\ pc[r] \in {"failed", "done"}
    /\ stream[r] # <<>>
    /\ Yielded(r, "error") = {}
    /\ stream' = [stream EXCEPT ![r] = Append(@, StreamEvent("error", "", <<>>))]
    /\ UNCHANGED <<cfg, web, bus, store, queries_db, workflow, pending, shared, pc,
                   round_index, frame, search_events, history, outcome, started>>

\* group_chat.py 257-262: an exception left the try block: error is yielded
\* and the generator ends.
StreamError(r) ==
    /\ pc[r] = "failed"
    /\ stream[r] # <<>>
    /\ ~StreamEnded(r)
    /\ stream' = [stream EXCEPT ![r] = Append(@, StreamEvent("error", "", <<>>))]
    /\ UNCHANGED <<cfg, web, bus, store, queries_db, workflow, pending, shared, pc,
                   round_index, frame, search_events, history, outcome, started>>

\* group_chat.py 223-230: run_stream ended, a synthesized answer is in the
\* shared state: answer_start is yielded.
AnswerStart(r) ==
    /\ pc[r] = "finishing"
    /\ stream[r] # <<>>
    /\ AgentEventsYielded(r)
    /\ StateOf(r).synthesized_answer # NoRun
    /\ stream' = [stream EXCEPT ![r] = Append(@, StreamEvent("answer_start", "", <<>>))]
    /\ pc' = [pc EXCEPT ![r] = "streaming"]
    /\ UNCHANGED <<cfg, web, bus, store, queries_db, workflow, pending, shared, round_index,
                   frame, search_events, history, outcome, started>>

ChunkWithoutLast(content, i) ==
    SubSeq(content, i + 1, Min(i + ChunkSize - 1, Len(content)))

\* group_chat.py 235: content[i:i+chunk_size].
Chunk(content, i) == SubSeq(content, i + 1, Min(i + ChunkSize, Len(content)))

\* group_chat.py 234: the i of the iteration of the loop that comes next.
NextChunkAt(r) == ChunkSize * Cardinality(Yielded(r, "answer_chunk"))

\* group_chat.py 234-242: an iteration of the loop: a chunk is yielded, then
\* the generator sleeps.
AnswerChunk(r) ==
    /\ pc[r] = "streaming"
    /\ NextChunkAt(r) < Len(web.answer)
    /\ stream' = [stream EXCEPT ![r] = Append(@,
          StreamEvent("answer_chunk", "", Chunk(web.answer, NextChunkAt(r))))]
    /\ UNCHANGED <<cfg, web, bus, store, queries_db, workflow, pending, shared, pc,
                   round_index, frame, search_events, history, outcome, started>>

\* group_chat.py 245-250: the loop is over: answer_complete is yielded.
AnswerComplete(r) ==
    /\ pc[r] = "streaming"
    /\ NextChunkAt(r) >= Len(web.answer)
    /\ stream' = [stream EXCEPT ![r] = Append(@,
          StreamEvent("answer_complete", "", web.answer))]
    /\ pc' = [pc EXCEPT ![r] = "completing"]
    /\ UNCHANGED <<cfg, web, bus, store, queries_db, workflow, pending, shared, round_index,
                   frame, search_events, history, outcome, started>>

\* group_chat.py 253-255: workflow_complete is yielded, after the answer or,
\* with no answer in the shared state, right after run_stream ended.
WorkflowComplete(r) ==
    /\ stream[r] # <<>>
    /\ \/ pc[r] = "completing"
       \/ /\ pc[r] = "finishing"
          /\ AgentEventsYielded(r)
          /\ StateOf(r).synthesized_answer = NoRun
    /\ stream' = [stream EXCEPT ![r] = Append(@, StreamEvent("workflow_complete", "", <<>>))]
    /\ pc' = [pc EXCEPT ![r] = "done"]
    /\ UNCHANGED <<cfg, web, bus, store, queries_db, workflow, pending, shared, round_index,
                   frame, search_events, history, outcome, started>>

\* ------------------------------------------------------ specifications
DefaultConfig ==
    [google_enabled |-> TRUE, arxiv_enabled |-> TRUE,
     search_concurrency |-> SearchConcurrencyDefault,
     scoring_concurrency |-> ScoringConcurrencyDefault]

\* Calls of execute_query on the default configuration; a plan of one google
\* step, a provider call that returns one result or raises.
Init == InitWith({DefaultConfig}, 1..MaxCalls, {OwnObjects, PairedObjects}, {DefaultWeb}, {NoBus}, {NoStore})

Next ==
    \E r \in Runs :
        \/ StartRun(r)
        \/ PlanBegin(r)
        \/ PlanReturn(r, 1, <<"google">>)
        \/ PlanRaise(r)
        \/ GatherBegin(r)
        \/ \E i \in 1..2 : RunSourceStart(r, i)
        \/ \E i \in 1..2 : ProviderReturn(r, i, 1)
        \/ \E i \in 1..2 : ProviderRaise(r, i)
        \/ FanoutDone(r)
        \/ \E j \in 1..2 : ScoreStart(r, j)
        \/ \E j \in 1..2 : ScoreReturn(r, j, 210)
        \/ ScoringDone(r)
        \/ Reflect(r)
        \/ ContentBegin(r)
        \/ ContentReturn(r)
        \/ SelectNone(r)
        \/ Finish(r)

Spec == Init /\ [][Next]_vars

\* As Spec, with every call there is room for, each on an object of its own.
InitSessions == InitWith({DefaultConfig}, Runs, {OwnObjects}, {DefaultWeb}, {NoBus}, {NoStore})

SpecSessions == InitSessions /\ [][Next]_vars

\* The fan-out of one call of execute_query, up to the start of the scoring
\* pass: every configuration of the providers, every plan, every outcome of
\* the provider calls.
InitFanout ==
    InitWith([google_enabled : BOOLEAN, arxiv_enabled : BOOLEAN,
              search_concurrency : 1..MaxConcurrency,
              scoring_concurrency : {ScoringConcurrencyDefault}],
             {1}, {OwnObjects}, {DefaultWeb}, {NoBus}, {NoStore})

NextFanout ==
    \/ StartRun(1)
    \/ PlanBegin(1)
    \/ \E steps \in 1..MaxSteps, sources \in PlannerSources :
          PlanReturn(1, steps, sources)
    \/ PlanRaise(1)
    \/ GatherBegin(1)
    \/ \E i \in 1..2 : RunSourceStart(1, i)
    \/ \E i \in 1..2, n \in {0, MaxResults} : ProviderReturn(1, i, n)
    \/ \E i \in 1..2 : ProviderRaise(1, i)
    \/ FanoutRaise(1)
    \/ FanoutDone(1)

SpecFanout == InitFanout /\ [][NextFanout]_vars

\* The scoring pass of one call of execute_query: both providers enabled, a
\* plan of one step, every scoring concurrency, every outcome of the scoring
\* calls.
InitScoring ==
    InitWith([google_enabled : {TRUE}, arxiv_enabled : {TRUE},
              search_concurrency : {SearchConcurrencyDefault},
              scoring_concurrency : 1..MaxConcurrency],
             {1}, {OwnObjects}, {DefaultWeb}, {NoBus}, {NoStore})

NextScoring ==
    \/ StartRun(1)
    \/ PlanBegin(1)
    \/ \E sources \in PlannerSources : PlanReturn(1, 1, sources)
    \/ GatherBegin(1)
    \/ \E i \in 1..2 : RunSourceStart(1, i)
    \/ \E i \in 1..2, n \in 0..MaxResults : ProviderReturn(1, i, n)
    \/ \E i \in 1..2 : ProviderRaise(1, i)
    \/ FanoutDone(1)
    \/ \E j \in 1..(2 * MaxResults) : ScoreStart(1, j)
    \/ \E j \in 1..(2 * MaxResults), raw \in ScoringAnswers : ScoreReturn(1, j, raw)
    \/ \E j \in 1..(2 * MaxResults) : ScoreRaise(1, j)
    \/ ScoringDone(1)
    \/ Reflect(1)
    \/ ContentBegin(1)

SpecScoring == InitScoring /\ [][NextScoring]_vars

\* The provider calls of a one-step plan, each returning up to MaxItems
\* results or raising.
InitPreview ==
    InitWith([google_enabled : {TRUE}, arxiv_enabled : {TRUE},
              search_concurrency : {SearchConcurrencyDefault},
              scoring_concurrency : {ScoringConcurrencyDefault}],
             {1}, {OwnObjects}, {DefaultWeb}, {NoBus}, {NoStore})

NextPreview ==
    \/ StartRun(1)
    \/ PlanBegin(1)
    \/ \E sources \in PlannerSources : PlanReturn(1, 1, sources)
    \/ GatherBegin(1)
    \/ \E i \in 1..2 : RunSourceStart(1, i)
    \/ \E i \in 1..2, n \in 0..MaxItems : ProviderReturn(1, i, n)
    \/ \E i \in 1..2 : ProviderRaise(1, i)
    \/ FanoutDone(1)

SpecPreview == InitPreview /\ [][NextPreview]_vars

\* The Research stage of one call of execute_query: both providers enabled,
\* two provider calls and two scoring calls at a time, every plan of up to
\* MaxSteps steps, provider calls that return one result or raise, every order
\* of the scoring calls.
InitGather ==
    InitWith({[DefaultConfig EXCEPT !.search_concurrency = 2,
                                    !.scoring_concurrency = 2]},
             {1}, {OwnObjects}, {DefaultWeb}, {NoBus}, {NoStore})

NextGather ==
    \/ StartRun(1)
    \/ PlanBegin(1)
    \/ \E steps \in 1..MaxSteps, sources \in PlannerSources :
          PlanReturn(1, steps, sources)
    \/ GatherBegin(1)
    \/ \E i \in 1..2 : RunSourceStart(1, i)
    \/ \E i \in 1..2 : ProviderReturn(1, i, 1)
    \/ \E i \in 1..2 : ProviderRaise(1, i)
    \/ FanoutDone(1)
    \/ \E j \in 1..(2 * MaxSteps) : ScoreStart(1, j)
    \/ \E j \in 1..(2 * MaxSteps) : ScoreReturn(1, j, 210)
    \/ ScoringDone(1)

SpecGather == InitGather /\ [][NextGather]_vars

\* The characters of the texts of SpecFallback: two letters, one of them in
\* both cases, and the blank.
Alphabet == {"a", "A", "b", " "}

RECURSIVE Texts(_)
\* The texts of at most n characters.
Texts(n) ==
    IF n = 0 THEN {<<>>}
    ELSE Texts(n - 1) \cup
         {Append(t, c) : t \in {u \in Texts(n - 1) : Len(u) = n - 1}, c \in Alphabet}

\* The fallback heuristic on every query and every result: one google result,
\* scored by a scoring call that raises.
InitFallback ==
    InitWith({DefaultConfig}, {1}, {OwnObjects},
             [query : Texts(MaxText),
              google : [title : Texts(MaxText), snippet : Texts(MaxText)],
              arxiv : {DefaultWeb.arxiv}, answer : {DefaultWeb.answer}],
             {NoBus}, {NoStore})

NextFallback ==
    \/ StartRun(1)
    \/ PlanBegin(1)
    \/ PlanReturn(1, 1, <<"google">>)
    \/ GatherBegin(1)
    \/ RunSourceStart(1, 1)
    \/ ProviderReturn(1, 1, 1)
    \/ FanoutDone(1)
    \/ ScoreStart(1, 1)
    \/ ScoreRaise(1, 1)
    \/ ScoringDone(1)

SpecFallback == InitFallback /\ [][NextFallback]_vars

RECURSIVE Programs(_)
\* The programs of at most n calls.
Programs(n) ==
    IF n = 0 THEN {<<>>}
    ELSE Programs(n - 1) \cup
         {Append(p, c) : p \in {q \in Programs(n - 1) : Len(q) = n - 1},
                         c \in PublishCalls}

\* An agent publishing into a bounded queue, or with no queue attached; no
\* call of execute_query.
InitEvents ==
    InitWith({DefaultConfig}, {}, {OwnObjects}, {DefaultWeb},
             {BusWith(attached, maxsize, program) :
                 attached \in BOOLEAN, maxsize \in 1..MaxQueue,
                 program \in Programs(MaxPublish)},
             {NoStore})

NextEvents ==
    \/ AgentStep
    \/ AgentWoken
    \/ RunReady
    \/ Consume

SpecEvents == InitEvents /\ [][NextEvents]_vars

\* The event loop runs what is ready, what the agent awaits arrives, and the
\* streaming API keeps draining the queue.
SpecEventsFair == SpecEvents /\ WF_vars(NextEvents)

\* Queries submitted through the API, next to one call of execute_query made
\* directly.
NextApi ==
    \/ NextScoring
    \/ \E q \in Runs : submit_query(q)
    \/ \E q \in Runs : execute_workflow(q)

SpecApi == InitScoring /\ [][NextApi]_vars

\* Every task of the event loop is run, every external call returns or raises.
SpecApiFair == SpecApi /\ WF_vars(NextApi)

\* Lists of results for _prepare_sources: every list of up to SmallSources
\* results over two URLs and two scores, and lists of up to MaxSources results
\* whose URLs and scores repeat with every period.
SmallResults ==
    UNION {[1..n -> {[url |-> u, relevance_score |-> v] : u \in 1..2, v \in 0..1}] :
              n \in 0..SmallSources}

PeriodicResults ==
    {[j \in 1..n |-> [url |-> (j % m) + 1, relevance_score |-> (j * b) % c]] :
        n \in 1..MaxSources, m \in 1..MaxSources, b \in 1..2, c \in 1..3}

\* The results with their ids: the id of a result is its place in the list.
WithIds(results) ==
    [j \in DOMAIN results |-> [id |-> j, url |-> results[j].url,
                               relevance_score |-> results[j].relevance_score]]

\* A call whose Planning, Research and Reflect stages have returned, with one
\* of the lists as search_results in the shared state.
InitSources ==
    /\ cfg = DefaultConfig
    /\ web = DefaultWeb
    /\ bus = NoBus
    /\ store = NoStore
    /\ queries_db = [q \in Runs |-> "none"]
    /\ stream = [r \in Runs |-> <<>>]
    /\ workflow = OwnObjects
    /\ pending = {}
    /\ \E results \in SmallResults \cup PeriodicResults :
          shared = [d \in Instances |->
              [InitialisedState(1) EXCEPT
                  !.research_plan = [by |-> 1, query_id |-> 1, steps |-> 1,
                                     sources |-> <<"google">>],
                  !.search_results = [by |-> 1, items |-> WithIds(results)]]]
    /\ pc = [r \in Runs |-> IF r = 1 THEN "select" ELSE "idle"]
    /\ round_index = [r \in Runs |-> IF r = 1 THEN 3 ELSE 0]
    /\ frame = [r \in Runs |-> NoFrame]
    /\ search_events = [i \in Instances |-> <<>>]
    /\ history = [r \in Runs |-> <<>>]
    /\ outcome = [r \in Runs |-> NoOutcome]
    /\ started = [r \in Runs |->
          IF r = 1 THEN <<"Planning Agent", "Research Agent", "Reflect Agent">> ELSE <<>>]

NextSources ==
    \/ ContentBegin(1)
    \/ ContentReturn(1)
    \/ SelectNone(1)
    \/ Finish(1)

SpecSources == InitSources /\ [][NextSources]_vars

\* Queries submitted to the API while one direct call of execute_query runs
\* on a one-step plan whose provider call raises.
InitStatus ==
    InitWith({DefaultConfig}, {1}, {OwnObjects}, {DefaultWeb}, {NoBus}, {NoStore})

NextStatus ==
    \/ StartRun(1)
    \/ PlanBegin(1)
    \/ PlanReturn(1, 1, <<"google">>)
    \/ PlanRaise(1)
    \/ GatherBegin(1)
    \/ RunSourceStart(1, 1)
    \/ ProviderRaise(1, 1)
    \/ FanoutDone(1)
    \/ Reflect(1)
    \/ ContentBegin(1)
    \/ \E q \in Runs : submit_query(q)
    \/ \E q \in Runs : execute_workflow(q)

SpecStatus == InitStatus /\ [][NextStatus]_vars

\* The texts of the answer: the first n letters, for every n up to MaxContent.
Letters == <<"a", "b", "c", "d", "e", "f", "g">>
Contents == {[k \in 1..n |-> Letters[((k - 1) % Len(Letters)) + 1]] : n \in 0..MaxContent}

\* Two calls of execute_query_stream, on one-step plans with one provider, a
\* provider call that returns one result or none; every text of the answer.
InitStream ==
    InitWith({DefaultConfig}, {1, 2}, {OwnObjects},
             {[DefaultWeb EXCEPT !.answer = content] : content \in Contents},
             {NoBus}, {NoStore})

NextStream ==
    \E r \in Runs :
        \/ StreamStart(r)
        \/ AgentStartYielded(r)
        \/ AgentCompleteYielded(r)
        \/ PlanBegin(r)
        \/ PlanReturn(r, 1, <<"google">>)
        \/ GatherBegin(r)
        \/ RunSourceStart(r, 1)
        \/ \E n \in 0..1 : ProviderReturn(r, 1, n)
        \/ FanoutDone(r)
        \/ ScoreStart(r, 1)
        \/ ScoreReturn(r, 1, 210)
        \/ ScoringDone(r)
        \/ Reflect(r)
        \/ ContentBegin(r)
        \/ ContentReturn(r)
        \/ SelectNone(r)
        \/ StreamError(r)
        \/ AnswerStart(r)
        \/ AnswerChunk(r)
        \/ AnswerComplete(r)
        \/ WorkflowComplete(r)

SpecStream == InitStream /\ [][NextStream]_vars

\* As SpecStream with the default text of the answer; the consumer keeps
\* iterating the generator, every call it awaits returns or raises.
InitStreamDefault ==
    InitWith({DefaultConfig}, {1, 2}, {OwnObjects}, {DefaultWeb}, {NoBus}, {NoStore})

SpecStreamFair == InitStreamDefault /\ [][NextStream]_vars /\ WF_vars(NextStream)

\* The semaphores of one call of execute_query: every search and scoring
\* concurrency from 1 on, Google enabled or not, a plan of one step with one
\* or two sources, provider and scoring calls that return or raise; every task
\* is run and every call returns or raises.
InitSlots ==
    InitWith([google_enabled : BOOLEAN, arxiv_enabled : {TRUE},
              search_concurrency : 1..MaxConcurrency,
              scoring_concurrency : 1..MaxConcurrency],
             {1}, {OwnObjects}, {DefaultWeb}, {NoBus}, {NoStore})

NextSlots ==
    \/ StartRun(1)
    \/ PlanBegin(1)
    \/ \E sources \in PlannerSources : PlanReturn(1, 1, sources)
    \/ GatherBegin(1)
    \/ \E i \in 1..2 : RunSourceStart(1, i)
    \/ \E i \in 1..2 : ProviderReturn(1, i, 1)
    \/ \E i \in 1..2 : ProviderRaise(1, i)
    \/ FanoutRaise(1)
    \/ FanoutDone(1)
    \/ \E j \in 1..2 : ScoreStart(1, j)
    \/ \E j \in 1..2 : ScoreReturn(1, j, 210)
    \/ \E j \in 1..2 : ScoreRaise(1, j)
    \/ ScoringDone(1)

SpecSlots == InitSlots /\ [][NextSlots]_vars

SpecSlotsFair == SpecSlots /\ WF_vars(NextSlots)

\* Tasks calling one WorkflowStateManager, in every order; no call of
\* execute_query.
InitStore ==
    InitWith({DefaultConfig}, {}, {OwnObjects}, {DefaultWeb}, {NoBus},
             {StoreWith(calls) : calls \in [Adders -> StoreCalls]})

NextStore ==
    \E t \in Adders :
        \/ add_search_result(t)
        \/ add_search_results(t)
        \/ get_search_results(t)

SpecStore == InitStore /\ [][NextStore]_vars

\* Tasks adding to, setting and reading one WorkflowStateManager, and
\* changing what they were returned, in every order.
InitSnapshots ==
    InitWith({DefaultConfig}, {}, {OwnObjects}, {DefaultWeb}, {NoBus},
             {StoreStateWith(calls) : calls \in [Adders -> StoreCalls \cup SnapshotCalls]})

NextSnapshots ==
    \E t \in Adders :
        \/ add_search_result(t)
        \/ add_search_results(t)
        \/ get_search_results(t)
        \/ get_all_state(t)
        \/ set_state(t)
        \/ \E kind \in {"research_plan", "search_results", "append", "remove"} :
              caller_changes(t, kind)

SpecSnapshots == InitSnapshots /\ [][NextSnapshots]_vars

\* ---------------------------------------------------------------- claims
\* A run that was started and has not ended.
InFlight(r) == pc[r] \notin {"idle", "failed", "done"}

\* What a step of run r changes of the run itself.
Own(r) == <<pc[r], round_index[r], frame[r], history[r], outcome[r], started[r]>>

IsPrefix(s, t) == Len(s) <= Len(t) /\ s = SubSeq(t, 1, Len(s))

\* C1: in every run the stages are started in the order Planning, Research,
\* Reflect, Content Writing and none twice; a run whose group chat ended has
\* started each of them once; and no step of a run changes an entry of the
\* shared state that an earlier stage of the same run wrote.
StagesInOrderOnce ==
    /\ [](\A r \in Runs :
            /\ IsPrefix(started[r], agent_name_sequence)
            /\ pc[r] \in {"finishing", "done"} => started[r] = agent_name_sequence)
    /\ [][\A r \in Runs : Own(r)' # Own(r) =>
            /\ (round_index[r] >= 1 /\ StateOf(r).research_plan.by = r)
                  => StateOf(r)'.research_plan = StateOf(r).research_plan
            /\ (round_index[r] >= 2 /\ StateOf(r).search_results.by = r)
                  => StateOf(r)'.search_results = StateOf(r).search_results
            /\ (round_index[r] >= 4 /\ StateOf(r).synthesized_answer = r)
                  => StateOf(r)'.synthesized_answer = StateOf(r).synthesized_answer
       ]_vars

\* A run went through the four stages and returned.
AllStagesRan ==
    \E r \in Runs : pc[r] = "done" /\ round_index[r] = StageCount
                    /\ started[r] = agent_name_sequence

\* C2: the step in which a stage of a run raises ends the run as failed with
\* the error handed to the caller and leaves the entries earlier stages wrote
\* as they were; a failed run stays failed: no stage is started or repeated.
FailedRunStops ==
    /\ [](\A r \in Runs : pc[r] = "failed" <=> outcome[r].status = "error")
    /\ [][\A r \in Runs :
            /\ (outcome[r].status # "error" /\ outcome'[r].status = "error") =>
                  /\ pc'[r] = "failed"
                  /\ outcome'[r].error # ""
                  /\ StateOf(r)'.query = StateOf(r).query
                  /\ StateOf(r)'.research_plan = StateOf(r).research_plan
                  /\ StateOf(r)'.synthesized_answer = StateOf(r).synthesized_answer
                  /\ round_index[r] # 1
                        => StateOf(r)'.search_results = StateOf(r).search_results
            /\ pc[r] = "failed" =>
                  /\ pc'[r] = "failed"
                  /\ started'[r] = started[r]
                  /\ round_index'[r] = round_index[r]
                  /\ outcome'[r] = outcome[r]
       ]_vars

\* The Research Agent of a run raised and the plan the run wrote is still there.
GatherFailedPlanKept ==
    \E r \in Runs : /\ pc[r] = "failed"
                    /\ started[r] = <<"Planning Agent", "Research Agent">>
                    /\ StateOf(r).research_plan.by = r

\* C3: a call of execute_query made on a workflow object while a run on that
\* object is in flight fails at once with SessionBusy and leaves the shared
\* state of the run in flight as it was.
SecondRunFailsFast ==
    [][\A r, q \in Runs :
          (r # q /\ workflow[r] = workflow[q] /\ InFlight(q)
                 /\ pc[r] = "idle" /\ pc'[r] # "idle")
          => /\ pc'[r] = "failed"
             /\ outcome'[r].error = "SessionBusy"
             /\ StateOf(q)' = StateOf(q)
      ]_vars

\* C4: no step of a run changes the shared state of a run in flight on another
\* workflow object.
RunsOnOtherObjectsIsolated ==
    [][\A r, q \in Runs :
          (workflow[r] # workflow[q] /\ InFlight(q) /\ Own(r)' # Own(r))
          => StateOf(q)' = StateOf(q)
      ]_vars

\* C5: a run that reports success delivers a synthesized answer.
NoPartialSuccess ==
    \A r \in Runs : outcome[r].status = "success" => outcome[r].answer # NoRun

\* C6: no task of a step's fan-out raises, so _execute_search_step never raises;
\* the step returns the results of the provider calls that succeeded.
ExecutorNeverRaises ==
    \A r \in Runs :
        /\ ~FanoutRaised(frame[r])
        /\ \A i \in DOMAIN frame[r].tasks :
              frame[r].tasks[i].error # "" => frame[r].tasks[i].res = <<>>

\* The provider calls of a run that were made and have not ended, by the
\* position of the call in the history of the run.
CallsInFlight(r) ==
    {k \in DOMAIN history[r] :
        /\ history[r][k].type = "provider_call"
        /\ ~ \E m \in DOMAIN history[r] :
                /\ history[r][m].type = "search_event"
                /\ history[r][m].event.id = history[r][k].id
                /\ history[r][m].event.status \in {"completed", "failed"}}

ScoringInFlight(r) ==
    {j \in DOMAIN frame[r].scoring : frame[r].scoring[j] = "calling"}

\* C8: at every moment the scoring calls in flight are at most the configured
\* scoring concurrency, and each of them holds a slot of the scoring semaphore.
ScoringConcurrencyBounded ==
    \A r \in Runs :
        /\ Cardinality(ScoringInFlight(r)) <= cfg.scoring_concurrency
        /\ frame[r].scoring # <<>> =>
              Cardinality(ScoringInFlight(r)) + frame[r].ssem = cfg.scoring_concurrency

\* A scoring task waits for the slot a scoring call holds.
ScoringSlotAwaited ==
    \E r \in Runs : /\ frame[r].ssem = 0
                    /\ \E i, j \in DOMAIN frame[r].scoring :
                          /\ frame[r].scoring[i] = "calling"
                          /\ frame[r].scoring[j] = "new"

\* The snapshots of the event id that run r emitted with a status.
SnapshotsOf(r, id, status) ==
    {k \in DOMAIN history[r] :
        /\ history[r][k].type = "search_event"
        /\ history[r][k].event.id = id
        /\ history[r][k].event.status = status}

RECURSIVE CompletedCount(_, _)
\* The results the completed events of the steps before a step report.
CompletedCount(evs, step) ==
    IF evs = <<>> THEN 0
    ELSE (IF Head(evs).status = "completed" /\ Head(evs).keywords[1].group < step
          THEN Head(evs).results_count ELSE 0) + CompletedCount(Tail(evs), step)

\* C9: a provider call that raised has exactly one failed event, carrying the
\* error, and no completed event, and contributes no result; the step goes on,
\* the other tasks of the step are untouched, a call that returned has exactly
\* one completed event and no failed one, and the results collected are those
\* the completed events report.
FailedCallReported ==
    /\ [](\A r \in Runs :
            /\ \A i \in DOMAIN frame[r].tasks :
                 LET t == frame[r].tasks[i]
                     id == frame[r].evs[t.ev].id
                 IN /\ t.error # "" =>
                          /\ Cardinality(SnapshotsOf(r, id, "failed")) = 1
                          /\ \A k \in SnapshotsOf(r, id, "failed") :
                                history[r][k].event.error = t.error
                          /\ SnapshotsOf(r, id, "completed") = {}
                          /\ t.res = <<>>
                    /\ (t.st = "returned" /\ t.ev # 0 /\ t.error = "") =>
                          /\ Cardinality(SnapshotsOf(r, id, "completed")) = 1
                          /\ \A k \in SnapshotsOf(r, id, "completed") :
                                history[r][k].event.results_count = Len(t.res)
                          /\ SnapshotsOf(r, id, "failed") = {}
            /\ pc[r] = "fanout" =>
                  Len(frame[r].all_results) = CompletedCount(frame[r].evs, frame[r].step)
            /\ pc[r] = "scoring" =>
                  Len(frame[r].all_results)
                     = CompletedCount(frame[r].evs, frame[r].plan.steps + 1))
    /\ [][\A r \in Runs : \A i \in DOMAIN frame[r].tasks :
            (frame[r].tasks[i].error = "" /\ i \in DOMAIN frame'[r].tasks
                /\ frame'[r].tasks[i].error # "")
            => /\ pc'[r] = pc[r]
               /\ \A j \in DOMAIN frame[r].tasks :
                     j # i => frame'[r].tasks[j] = frame[r].tasks[j]
       ]_vars

\* In one step a provider call raised and another returned results.
OneFailedOneDelivered ==
    \E r \in Runs : \E i, j \in DOMAIN frame[r].tasks :
        /\ frame[r].tasks[i].error # ""
        /\ frame[r].tasks[j].st = "returned"
        /\ frame[r].tasks[j].res # <<>>

\* C10: every provider call of a run comes after the emission of a searching
\* event with the id and the provider of the call, the query text and the
\* keywords of a step of the plan; no two provider calls of a run share an id.
SearchingBeforeCall ==
    \A r \in Runs : \A k \in DOMAIN history[r] :
        history[r][k].type = "provider_call" =>
            /\ \E m \in 1..(k - 1) :
                  /\ history[r][m].type = "search_event"
                  /\ history[r][m].event.id = history[r][k].id
                  /\ history[r][m].event.status = "searching"
                  /\ history[r][m].event.tool = history[r][k].tool
                  /\ history[r][m].event.query = SearchQuery(history[r][m].event.keywords)
                  /\ \E step \in 1..StateOf(r).research_plan.steps :
                        history[r][m].event.keywords
                           = StepKeywords(StateOf(r).research_plan, step)
            /\ \A m \in DOMAIN history[r] :
                  (m # k /\ history[r][m].type = "provider_call")
                     => history[r][m].id # history[r][k].id

\* A run made two provider calls.
TwoProviderCalls ==
    \E r \in Runs :
        Cardinality({k \in DOMAIN history[r] : history[r][k].type = "provider_call"}) >= 2

\* The tasks of the current step of run r whose provider call returned
\* without raising.
ReturnedCalls(r) ==
    {i \in DOMAIN frame[r].tasks :
        /\ frame[r].tasks[i].st = "returned"
        /\ frame[r].tasks[i].ev # 0
        /\ frame[r].tasks[i].error = ""}

\* C11: the event of a provider call that returned n results is completed,
\* counts n results and carries min(n, 3) previews, the previews of the first
\* results in the order the provider returned them; and that is the event
\* that was emitted.
CompletedEventPreviews ==
    \A r \in Runs : \A i \in ReturnedCalls(r) :
        LET t == frame[r].tasks[i]
            e == frame[r].evs[t.ev]
        IN /\ e.status = "completed"
           /\ e.results_count = Len(t.res)
           /\ Len(e.results) = Min(Len(t.res), PreviewLimit)
           /\ \A j \in 1..Len(e.results) : e.results[j] = Preview(t.res[j])
           /\ \E k \in 1..Len(history[r]) : history[r][k] = Snapshot(e)

\* A call returned more results than a completed event previews.
MoreResultsThanPreviews ==
    \E r \in Runs : \E i \in ReturnedCalls(r) :
        Len(frame[r].tasks[i].res) > PreviewLimit

\* The id of the event an entry of the history is about.
EntryId(h) == IF h.type = "search_event" THEN h.event.id ELSE h.id

\* An entry of the history that starts a provider call: the searching event
\* emitted, the provider called.
StartsCall(h) ==
    \/ h.type = "provider_call"
    \/ h.type = "search_event" /\ h.event.status = "searching"

\* The step of the plan the event with an id belongs to.
StepOfId(r, id) == frame[r].evs[id[2]].keywords[1].group

\* C12: when a searching event of a step is emitted or a provider of the step
\* is called, no provider call of an earlier step is still in flight, and
\* when the fan-out moves to the next step no task of the step is left that
\* has not completed or failed.
StepsSequential ==
    [][\A r \in Runs :
         /\ \A k \in (DOMAIN history'[r]) \ (DOMAIN history[r]) :
               StartsCall(history'[r][k]) =>
                  \A q \in CallsInFlight(r) :
                     StepOfId(r, history[r][q].id)
                        >= frame'[r].evs[EntryId(history'[r][k])[2]].keywords[1].group
         /\ (InFlight(r) /\ frame'[r].step > frame[r].step /\ frame[r].step > 0) =>
               \A i \in DOMAIN frame[r].tasks :
                  frame[r].tasks[i].st \notin {"new", "calling"}]_vars

\* Two providers were called in the first step and one in the second.
SecondStepAfterTwoCalls ==
    \E r \in Runs :
        /\ Cardinality({k \in DOMAIN history[r] :
              /\ history[r][k].type = "provider_call"
              /\ StepOfId(r, history[r][k].id) = 1}) = 2
        /\ \E k \in DOMAIN history[r] :
              /\ history[r][k].type = "provider_call"
              /\ StepOfId(r, history[r][k].id) = 2

MissingPlanError == "ValueError: Research plan not found in context"

\* C13: a Research stage that finds no plan in the shared state fails the run
\* with the missing-plan error in the step that starts it: no searching event
\* is emitted, no provider called, the shared state is left as it was; and a
\* run that failed so has no event, no provider call and no results entry.
MissingPlanRaisesFirst ==
    /\ [](\A r \in Runs : outcome[r].error = MissingPlanError =>
            /\ pc[r] = "failed"
            /\ history[r] = <<>>
            /\ StateOf(r).search_results.by # r)
    /\ [][\A r \in Runs :
            (/\ pc[r] = "select"
             /\ select_next_speaker(round_index[r]) = "Research Agent"
             /\ StateOf(r).research_plan.by = NoRun
             /\ Own(r)' # Own(r))
            => /\ pc'[r] = "failed"
               /\ outcome'[r].error = MissingPlanError
               /\ history'[r] = history[r]
               /\ frame'[r] = frame[r]
               /\ shared' = shared]_vars

\* A run failed in the Research stage because the plan was gone.
GatherWithoutPlan ==
    \E r \in Runs :
        /\ outcome[r].error = MissingPlanError
        /\ started[r] = <<"Planning Agent", "Research Agent">>

\* The scores of a list of results.
ScoresOf(items) == {items[j].relevance_score : j \in DOMAIN items}

\* C14: a scoring task that is done has given its result a score between 0
\* and 1, whether the scoring call returned or raised; the scoring pass fails
\* no run; and it ends only when every task is done, with every result it
\* hands to the sort scored between 0 and 1.
ScoresSetAndInRange ==
    /\ [](\A r \in Runs :
            /\ \A j \in DOMAIN frame[r].scoring :
                  frame[r].scoring[j] = "done" =>
                     frame[r].all_results[j].relevance_score \in 0..ScoreUnit
            /\ pc[r] = "scoring" => outcome[r] = NoOutcome)
    /\ [][\A r \in Runs : (pc[r] = "scoring" /\ pc'[r] # "scoring") =>
            /\ \A j \in DOMAIN frame[r].scoring : frame[r].scoring[j] = "done"
            /\ ScoresOf(frame[r].all_results) \subseteq 0..ScoreUnit
            /\ StateOf(r)'.search_results.by = r
            /\ ScoresOf(StateOf(r)'.search_results.items) \subseteq 0..ScoreUnit]_vars

\* The results stored hold a score of the fallback heuristic and a score that
\* was clamped to 1.
FallbackAndClampedScores ==
    \E r \in Runs :
        /\ StateOf(r).search_results.by = r
        /\ {basic_relevance_score(web.query, web.google.title, web.google.snippet),
            ScoreUnit} \subseteq ScoresOf(StateOf(r).search_results.items)
        /\ basic_relevance_score(web.query, web.google.title, web.google.snippet)
              \notin {analyze_relevance(raw) : raw \in ScoringAnswers}

\* The formula as stated: the query and title+snippet lower-cased and split
\* on whitespace, a query term matched when it is one of the words.
StatedFallbackScore(query, title, snippet) ==
    LET terms == Split(Lower(query))
        words == Split(Lower(TitleAndSnippet(title, snippet)))
        titleWords == Split(Lower(title))
        base == (Cardinality(terms \cap words) * ScoreUnit) \div Cardinality(terms)
        titleMatches == Cardinality(terms \cap titleWords)
    IN IF terms = {} THEN ScoreUnit \div 2
       ELSE IF titleMatches > 0
            THEN Min(ScoreUnit,
                     base + (titleMatches * (ScoreUnit \div 5)) \div Cardinality(terms))
            ELSE base

\* C15: the score the fallback gives a result is the stated formula of the
\* query, the title and the snippet, both tokenized on whitespace and
\* lower-cased, and lies between 0 and 1.
FallbackScoreIsStatedFormula ==
    \A r \in Runs : \A j \in DOMAIN frame[r].scoring :
        frame[r].scoring[j] = "done" =>
            LET item == frame[r].all_results[j]
            IN /\ item.relevance_score \in 0..ScoreUnit
               /\ item.relevance_score =
                     StatedFallbackScore(web.query, TitleOf(item), SnippetOf(item))

\* The place of an item in a list that holds it once.
PositionIn(items, x) == CHOOSE i \in DOMAIN items : items[i] = x

\* C16: the list the Research stage stores holds the scored results, each
\* once, in descending order of score, two results of equal score in the
\* order they had before the sort.
StoredSortedStable ==
    [][\A r \in Runs : (pc[r] = "scoring" /\ pc'[r] # "scoring") =>
         LET before == frame[r].all_results
             after == StateOf(r)'.search_results.items
         IN /\ Len(after) = Len(before)
            /\ {after[k] : k \in DOMAIN after} = {before[k] : k \in DOMAIN before}
            /\ \A k, l \in DOMAIN after : k < l =>
                  /\ after[k].relevance_score >= after[l].relevance_score
                  /\ after[k].relevance_score = after[l].relevance_score
                        => PositionIn(before, after[k]) < PositionIn(before, after[l])]_vars

\* Two results of equal score were stored.
EqualScoresStored ==
    \E r \in Runs :
        LET items == StateOf(r).search_results.items
        IN /\ StateOf(r).search_results.by = r
           /\ \E k, l \in DOMAIN items :
                 k < l /\ items[k].relevance_score = items[l].relevance_score

\* k occurs in a sequence, and how often.
InSeq(s, k) == \E i \in DOMAIN s : s[i] = k
Count(s, k) == Cardinality({i \in DOMAIN s : s[i] = k})

\* The events the program publishes.
Events == {k \in DOMAIN bus.program : bus.program[k] # "await"}

\* The agent has issued the publish of event k.
Issued(k) ==
    /\ k \in Events
    /\ \/ bus.pos > k
       \/ bus.pos = k /\ bus.agent \in {"waiting", "woken"}

\* emit_event has returned for event k.
PublishReturned(k) ==
    /\ k \in Events
    /\ IF bus.program[k] = "emit_event" THEN bus.pos > k ELSE bus.task[k] = "done"

\* The put of event k is waiting for room.
PutWaiting(k) ==
    /\ k \in Events
    /\ IF bus.program[k] = "emit_event"
       THEN bus.pos = k /\ bus.agent \in {"waiting", "woken"}
       ELSE bus.task[k] \in {"waiting", "woken"}

\* C17: with a queue attached no event is lost or doubled: emit_event returns
\* only when its event is in the queue, a waiting put has not enqueued, what
\* was delivered and what is queued is what was enqueued, each event at most
\* once; emit_event of the running agent enqueues and goes on when there is
\* room and waits when the queue is full; and while the queue is drained
\* every event issued is delivered in the end.
NoEventDropped ==
    /\ [](bus.attached =>
            /\ bus.delivered \o bus.queue = bus.enqueued
            /\ \A k \in DOMAIN bus.program :
                  /\ Count(bus.enqueued, k) <= 1
                  /\ PublishReturned(k) => InSeq(bus.enqueued, k)
                  /\ PutWaiting(k) => ~InSeq(bus.enqueued, k))
    /\ [][(/\ bus.attached
           /\ bus.agent = "running"
           /\ bus.pos \in DOMAIN bus.program
           /\ bus.program[bus.pos] = "emit_event")
          => IF Len(bus.queue) < bus.maxsize
             THEN /\ bus'.enqueued = Append(bus.enqueued, bus.pos)
                  /\ bus'.agent = "running"
                  /\ bus'.pos = bus.pos + 1
             ELSE /\ bus'.enqueued = bus.enqueued
                  /\ bus'.agent = "waiting"
                  /\ bus'.pos = bus.pos]_vars
    /\ \A k \in 1..MaxPublish :
          (bus.attached /\ Issued(k)) ~> InSeq(bus.delivered, k)

\* An event whose put waited for room was delivered.
WaitedEventDelivered ==
    /\ bus.attached
    /\ \E k \in bus.waited : InSeq(bus.delivered, k)

\* C18: the events are enqueued in the order the agent published them.
PublishOrderKept ==
    bus.attached =>
        \A i, j \in DOMAIN bus.enqueued : i < j => bus.enqueued[i] < bus.enqueued[j]

\* C19: with no queue attached nothing is enqueued, buffered or delivered and
\* nothing waits; emit_event of the running agent only returns; no step of
\* the bus changes the shared state; and the agent gets through its program,
\* as it does with a queue attached.
NoQueueNoOp ==
    /\ [](~bus.attached =>
            /\ bus.queue = <<>> /\ bus.enqueued = <<>> /\ bus.delivered = <<>>
            /\ bus.putters = <<>> /\ bus.waited = {}
            /\ bus.agent \notin {"waiting", "woken"}
            /\ \A k \in DOMAIN bus.task : bus.task[k] \notin {"waiting", "woken"})
    /\ [][/\ bus' # bus => shared' = shared
          /\ (/\ ~bus.attached
              /\ bus.agent = "running"
              /\ bus.pos \in DOMAIN bus.program
              /\ bus.program[bus.pos] = "emit_event")
             => bus' = [bus EXCEPT !.pos = @ + 1]]_vars
    /\ <>(bus.agent = "done" /\ bus.pos = Len(bus.program) + 1)

\* With no queue attached the agent got through a program that awaited
\* emit_event and published through log_step.
PublishedWithoutQueue ==
    /\ ~bus.attached
    /\ bus.agent = "done"
    /\ \E k \in Events : bus.program[k] = "emit_event"
    /\ \E k \in Events : bus.program[k] = "log_step" /\ bus.task[k] = "done"

\* The events run r has emitted.
EmittedBy(r) == {k \in DOMAIN history[r] : history[r][k].type = "search_event"}

\* C20: the content of an emitted event never changes: every emitted event
\* stays in place with the content it was emitted with, and a searching event
\* stays a searching event without count, results and error when the event of
\* its provider call is completed or failed.
EmittedEventImmutable ==
    [][\A r \in Runs : \A k \in EmittedBy(r) :
         /\ k \in EmittedBy(r)'
         /\ PublishedContent(r, k)' = PublishedContent(r, k)
         /\ PublishedContent(r, k).status = "searching" =>
               /\ PublishedContent(r, k)'.results_count = NoCount
               /\ PublishedContent(r, k)'.results = <<>>
               /\ PublishedContent(r, k)'.error = ""]_vars

\* The event of a provider call is completed, with its results, and the
\* searching event emitted for the call is as it was.
SearchingKeptAfterCompleted ==
    \E r \in Runs : \E k \in EmittedBy(r) :
        LET id == PublishedContent(r, k).id
        IN /\ PublishedContent(r, k).status = "searching"
           /\ id[2] \in DOMAIN frame[r].evs
           /\ frame[r].evs[id[2]].status = "completed"
           /\ frame[r].evs[id[2]].results # <<>>

\* C21: a step of a stage that writes the shared state is taken by a run that
\* holds the mutex of the store.
StageWritesHoldMutex ==
    [][\A r \in Runs :
         (InFlight(r) /\ Own(r)' # Own(r) /\ shared' # shared) => store.lock = r]_vars

\* The calls of the store that add results, and those of them that have ended.
AddCalls == {t \in DOMAIN store.call : store.call[t].op # "get_search_results"}
AddCallsEnded == {t \in AddCalls : store.call[t].st # "new"}

\* The results of task t stand in a list once, together and in their order.
ContiguousIn(list, t) ==
    /\ Cardinality({k \in DOMAIN list : list[k][1] = t}) = store.call[t].n
    /\ store.call[t].n > 0 =>
          \E k \in DOMAIN list : SubSeq(list, k, k + store.call[t].n - 1) = ResultsOf(t)

KeyOf(agent) ==
    CASE agent = "Planning Agent" -> "research_plan"
      [] agent = "Research Agent" -> "search_results"
      [] agent = "Reflect Agent" -> "reflect_feedback"
      [] agent = "Content Writing Agent" -> "synthesized_answer"

\* The keys of object d that a step changes.
KeysChanged(d) == {key \in DOMAIN ClearedState : shared'[d][key] # shared[d][key]}

\* C23: a step of a run that is past its initialisation changes no key of the
\* shared state but the key of the stage it is in, and that only in the
\* dict of its workflow object: the query and the keys of the other stages stay.
StagesWriteOwnKey ==
    [][shared' # shared =>
         \A r \in Runs : (pc[r] # "idle" /\ Own(r)' # Own(r)) =>
            \A d \in Instances :
               /\ d # shared_state(workflow[r]) => KeysChanged(d) = {}
               /\ KeysChanged(d) # {} =>
                     /\ started'[r] # <<>>
                     /\ KeysChanged(d) = {KeyOf(started'[r][Len(started'[r])])}]_vars

\* Planning, Research and Content Writing have each written their key.
ThreeKeysWritten ==
    \E d \in Instances :
        /\ shared[d].research_plan.by # NoRun
        /\ shared[d].search_results.by # NoRun
        /\ shared[d].synthesized_answer # NoRun

\* The stage a step of run r starts, "" when it starts none.
StageStarted(r) ==
    IF Len(started'[r]) > Len(started[r]) THEN started'[r][Len(started'[r])] ELSE ""

\* C24: when a stage starts, the outputs of the stages before it are in the
\* shared state: the plan when Research starts, the results too when Reflect
\* starts, the feedback too when Content Writing starts.
EarlierOutputsPresent ==
    [][\A r \in Runs :
         /\ StageStarted(r) \in {"Research Agent", "Reflect Agent", "Content Writing Agent"}
               => StateOf(r).research_plan.by # NoRun
         /\ StageStarted(r) \in {"Reflect Agent", "Content Writing Agent"}
               => StateOf(r).search_results.by # NoRun
         /\ StageStarted(r) = "Content Writing Agent"
               => StateOf(r).reflect_feedback # NoRun]_vars

\* C25: a step in which the Reflect stage returns leaves a feedback entry in
\* the shared state.
ReflectReturnsWithFeedback ==
    [][\A r \in Runs :
         (StageStarted(r) = "Reflect Agent" /\ round_index'[r] = round_index[r] + 1)
         => StateOf(r)'.reflect_feedback # NoRun]_vars

\* The provider calls in the history of run r.
ProviderCallsOf(r) == {k \in DOMAIN history[r] : history[r][k].type = "provider_call"}

\* C26: nothing is retried: in the history of a run no two provider calls are
\* of the same step and the same provider, and no stage was started twice; a
\* scoring call starts only for a result not submitted before, a result once
\* submitted is never waiting to be submitted again, and the scoring tasks are
\* set up only by the step that ends the fan-out of the Research stage.
NothingRetried ==
    /\ [](\A r \in Runs :
            /\ \A k, m \in ProviderCallsOf(r) :
                  (/\ StepOfId(r, history[r][k].id) = StepOfId(r, history[r][m].id)
                   /\ history[r][k].tool = history[r][m].tool) => k = m
            /\ \A a, b \in DOMAIN started[r] : started[r][a] = started[r][b] => a = b)
    /\ [][\A r \in Runs :
            /\ \A j \in DOMAIN frame[r].scoring :
                  frame[r].scoring[j] # "new" =>
                     \/ frame'[r].scoring = <<>>
                     \/ /\ j \in DOMAIN frame'[r].scoring
                        /\ frame'[r].scoring[j] # "new"
                        /\ (frame'[r].scoring[j] = "calling"
                              => frame[r].scoring[j] = "calling")
                        /\ frame'[r].all_results[j].idx = frame[r].all_results[j].idx
            /\ (frame[r].scoring = <<>> /\ frame'[r].scoring # <<>>) =>
                  /\ pc[r] = "fanout"
                  /\ started[r][Len(started[r])] = "Research Agent"
                  /\ \A j \in DOMAIN frame'[r].scoring : frame'[r].scoring[j] = "new"]_vars

\* A provider call of a run failed, another returned a result, and the
\* scoring call of the result has ended; both stages were started once.
FailuresNotRetried ==
    \E r \in Runs :
        /\ pc[r] = "scoring"
        /\ Cardinality(ProviderCallsOf(r)) = 2
        /\ \E k \in EmittedBy(r) : history[r][k].event.status = "failed"
        /\ frame[r].scoring # <<>>
        /\ \A j \in DOMAIN frame[r].scoring : frame[r].scoring[j] = "done"

\* The fan-out of run r is over: the step is the last of the plan, no provider
\* call is in flight, and the results collected are those the completed events
\* of all the steps report.
FanoutOver(r, collected) ==
    /\ frame[r].step = frame[r].plan.steps
    /\ CallsInFlight(r) = {}
    /\ collected = CompletedCount(frame[r].evs, frame[r].plan.steps + 1)

\* C27: the scoring tasks are set up, and a scoring call starts, only when the
\* fan-out of the last step is over, one task per result of all the steps; and
\* the step that writes the results entry finds every scoring call completed.
ScoringAfterLastFanout ==
    [][\A r \in Runs :
         /\ (frame[r].scoring = <<>> /\ frame'[r].scoring # <<>>) =>
               /\ \A i \in DOMAIN frame[r].tasks : frame[r].tasks[i].st = "returned"
               /\ FanoutOver(r, Len(frame'[r].scoring))
         /\ (\E j \in DOMAIN frame[r].scoring :
                /\ frame[r].scoring[j] = "new"
                /\ frame'[r].scoring # <<>>
                /\ frame'[r].scoring[j] = "calling") =>
               FanoutOver(r, Len(frame[r].scoring))
         /\ (InFlight(r) /\ StateOf(r)'.search_results # StateOf(r).search_results) =>
               /\ \A j \in DOMAIN frame[r].scoring : frame[r].scoring[j] = "done"
               /\ FanoutOver(r, Len(StateOf(r)'.search_results.items))]_vars

\* The results of two steps were scored together and stored.
TwoStepsScoredTogether ==
    \E r \in Runs :
        /\ StateOf(r).search_results.by = r
        /\ \E k, m \in DOMAIN StateOf(r).search_results.items :
              /\ StateOf(r).search_results.items[k].step = 1
              /\ StateOf(r).search_results.items[m].step = 2
              /\ StateOf(r).search_results.items[k].relevance_score # NoScore
              /\ StateOf(r).search_results.items[m].relevance_score # NoScore
        /\ \E k \in EmittedBy(r) : history[r][k].event.status = "failed"

\* A call of execute_query, or a query of the API, that has not ended.
Unfinished(r) ==
    \/ r \in pending
    \/ InFlight(r)
    \/ queries_db[r] \in {"pending", "processing"}

\* C28: the group chat asks for no speaker once round_index is 4; a call of
\* execute_query that returned went through all 4 stages and one that raised
\* had a stage raise; a query is completed only when its call returned and
\* failed only when a stage of its run raised; and every call and every query
\* ends.
RunsEndCompletedOrFailed ==
    /\ [](\A r \in Runs :
            /\ round_index[r] <= StageCount
            /\ round_index[r] = StageCount => select_next_speaker(round_index[r]) = "None"
            /\ pc[r] = "done" => round_index[r] = StageCount
            /\ pc[r] = "failed" => outcome[r].status = "error" /\ started[r] # <<>>
            /\ queries_db[r] = "completed" => pc[r] = "done"
            /\ queries_db[r] = "failed" => pc[r] = "failed")
    /\ \A r \in Runs : Unfinished(r) ~> ~Unfinished(r)

RECURSIVE ChunkText(_)
\* The contents of the answer_chunk events of a stream, concatenated in the
\* order of emission.
ChunkText(events) ==
    IF events = <<>> THEN <<>>
    ELSE (IF Head(events).type = "answer_chunk" THEN Head(events).content ELSE <<>>)
         \o ChunkText(Tail(events))

\* C29: in every stream every answer_chunk has at most 5 characters and comes
\* after an answer_start and before any answer_complete; what the chunks
\* yielded so far spell is the beginning of the content of the answer, and once
\* answer_complete is yielded it is the whole content.
ChunksSpellAnswer ==
    \A r \in Runs :
        /\ \A k \in Yielded(r, "answer_chunk") :
              /\ Len(stream[r][k].content) <= 5
              /\ \E a \in Yielded(r, "answer_start") : a < k
              /\ \A c \in Yielded(r, "answer_complete") : k < c
        /\ \A c \in Yielded(r, "answer_complete") :
              /\ \E a \in Yielded(r, "answer_start") : a < c
              /\ ChunkText(stream[r]) = stream[r][c].content
              /\ stream[r][c].content = web.answer
        /\ IsPrefix(ChunkText(stream[r]), web.answer)
        /\ Cardinality(Yielded(r, "answer_start")) <= 1
        /\ (pc[r] = "done" /\ Yielded(r, "answer_start") # {})
              => Yielded(r, "answer_complete") # {}

\* An answer was streamed in two chunks, the second shorter than the first.
AnswerInTwoChunks ==
    \E r \in Runs :
        /\ Yielded(r, "answer_complete") # {}
        /\ Cardinality(Yielded(r, "answer_chunk")) = 2
        /\ \E k \in Yielded(r, "answer_chunk") : Len(stream[r][k].content) < ChunkSize
        /\ \E k \in Yielded(r, "answer_chunk") : Len(stream[r][k].content) = ChunkSize

\* The events that end a stream.
TerminalEvents(r) == Yielded(r, "workflow_complete") \cup Yielded(r, "error")

\* C30: a stream has at most one of workflow_complete and error, and it is
\* its last event; an agent_start, agent_complete or answer event comes after
\* the workflow_start the stream begins with; and every stream that began gets
\* its terminal event.
StreamEndsOnce ==
    /\ [](\A r \in Runs :
            /\ Cardinality(TerminalEvents(r)) <= 1
            /\ \A k \in TerminalEvents(r) : k = Len(stream[r])
            /\ \A k \in DOMAIN stream[r] :
                  stream[r][k].type \in {"agent_start", "agent_complete", "answer_start",
                                         "answer_chunk", "answer_complete"}
                  => k > 1 /\ stream[r][1].type = "workflow_start")
    /\ \A r \in Runs : (stream[r] # <<>>) ~> (TerminalEvents(r) # {})

\* A stream ended with workflow_complete after an answer, another with error
\* after its agents had started.
BothStreamEndings ==
    \E r, q \in Runs :
        /\ Yielded(r, "workflow_complete") # {}
        /\ Yielded(r, "answer_complete") # {}
        /\ Yielded(r, "agent_complete") # {}
        /\ Yielded(q, "error") # {}
        /\ Yielded(q, "agent_start") # {}

\* The provider of a source of the plan is disabled (or was not initialised).
Disabled(source) ==
    \/ source = "google" /\ ~cfg.google_enabled
    \/ source = "arxiv" /\ ~cfg.arxiv_enabled

\* C31: the task of a source whose provider is disabled never raises, makes no
\* provider call, has no event and no results; once run it has returned.
DisabledSourceSkipped ==
    \A r \in Runs : \A i \in DOMAIN frame[r].tasks :
        Disabled(frame[r].plan.sources[i]) =>
            /\ frame[r].tasks[i].st \in {"new", "returned"}
            /\ frame[r].tasks[i].ev = 0
            /\ frame[r].tasks[i].tool = ""
            /\ frame[r].tasks[i].res = <<>>

\* Result x stands before result y in the order of steps, then of the sources
\* of the plan, then of the provider's own list.
GatherOrder(plan, x, y) ==
    \/ x.step < y.step
    \/ /\ x.step = y.step
       /\ PositionIn(plan.sources, x.source) < PositionIn(plan.sources, y.source)
    \/ x.step = y.step /\ x.source = y.source /\ x.idx < y.idx

\* The completed events of a tool in the history of run r.
CompletedBy(r, tool) ==
    {k \in EmittedBy(r) : /\ history[r][k].event.status = "completed"
                          /\ history[r][k].event.tool = tool}

\* C32: whatever the order in which the provider calls ended, the results
\* collected stand in the order of the steps, within a step in the order of its
\* source list, within a source in the order the provider returned them, and
\* they are as many as the completed events of the steps collected report.
GatherOrderFixed ==
    \A r \in Runs :
        LET all == frame[r].all_results
        IN /\ \A k, l \in DOMAIN all : k < l => GatherOrder(frame[r].plan, all[k], all[l])
           /\ pc[r] = "fanout" => Len(all) = CompletedCount(frame[r].evs, frame[r].step)
           /\ pc[r] = "scoring" => Len(all) = CompletedCount(frame[r].evs, frame[r].step + 1)

\* The arXiv call of a step returned results before the Google call did, and
\* the results of both were collected.
LaterSourceReturnedFirst ==
    \E r \in Runs :
        /\ \E g \in CompletedBy(r, "Google"), a \in CompletedBy(r, "arXiv") :
              /\ a < g
              /\ history[r][a].event.keywords = history[r][g].event.keywords
              /\ history[r][a].event.results_count > 0
              /\ history[r][g].event.results_count > 0
        /\ \E k, l \in DOMAIN frame[r].all_results :
              /\ frame[r].all_results[k].source = "google"
              /\ frame[r].all_results[l].source = "arxiv"
              /\ frame[r].all_results[k].step = frame[r].all_results[l].step

\* The Research stage of run r is over and every provider call it made failed.
GatheredNothing(r) ==
    /\ InSeq(started[r], "Research Agent")
    /\ pc[r] \notin {"fanout", "scoring"}
    /\ ProviderCallsOf(r) # {}
    /\ CallsInFlight(r) = {}
    /\ \A k \in EmittedBy(r) : history[r][k].event.status # "completed"

NoResultsError == "ValueError: No search results available for synthesis"

\* C33: a run whose provider calls all failed gets through the Research stage,
\* never synthesizes or completes, ends failed with the no-results error of the
\* Content Writing stage, and writes no answer to the shared state.
FailedSearchEndsFailed ==
    \A r \in Runs : GatheredNothing(r) =>
        /\ round_index[r] >= 2
        /\ pc[r] \notin {"content", "finishing", "done"}
        /\ pc[r] = "failed" => outcome[r].error = NoResultsError
        /\ StateOf(r).synthesized_answer # r

\* The tasks of the step of run r that hold a slot of the search semaphore.
SearchSlotsHeld(r) ==
    {i \in DOMAIN frame[r].tasks : frame[r].tasks[i].st = "calling"}

\* C34: the free slots and the slots held by calls in flight always add up to
\* the concurrency, so that after the last task of a fan-out or of a scoring
\* pass every slot is free; and every fan-out and every scoring pass ends, with
\* a concurrency of 1 as with any other.
SlotsAlwaysReleased ==
    /\ [](\A r \in Runs :
            /\ frame[r].tasks # <<>> =>
                  frame[r].sem + Cardinality(SearchSlotsHeld(r)) = cfg.search_concurrency
            /\ frame[r].scoring # <<>> =>
                  frame[r].ssem + Cardinality(ScoringInFlight(r)) = cfg.scoring_concurrency
            /\ (frame[r].tasks # <<>> /\ FanoutReturned(frame[r])) =>
                  frame[r].sem = cfg.search_concurrency
            /\ (frame[r].scoring # <<>>
                /\ \A j \in DOMAIN frame[r].scoring : frame[r].scoring[j] = "done") =>
                  frame[r].ssem = cfg.scoring_concurrency)
    /\ \A r \in Runs : (pc[r] = "fanout") ~> (pc[r] # "fanout")
    /\ \A r \in Runs : (pc[r] = "scoring") ~> (pc[r] # "scoring")

\* With one slot each, two provider calls were made, one of them failed, and
\* two results were scored.
OneSlotTwoCalls ==
    \E r \in Runs :
        /\ cfg.search_concurrency = 1
        /\ cfg.scoring_concurrency = 1
        /\ Cardinality(ProviderCallsOf(r)) = 2
        /\ Len(frame[r].scoring) >= 1
        /\ \A j \in DOMAIN frame[r].scoring : frame[r].scoring[j] = "done"
        /\ frame[r].ssem = 1
        /\ \E k \in EmittedBy(r) : history[r][k].event.status = "failed"

\* The ids of the events of a list of event dicts, in order.
IdsOf(evs) == [k \in DOMAIN evs |-> evs[k].id]

\* C35: during the Research stage of a run the list search_events of its
\* agent holds the events of the provider calls the run has started, one per
\* call and in the order of their start; once the fan-out of the last step is
\* over every one of them is completed or failed, and an event is completed
\* exactly when its provider call returned without raising.
SearchEventsOnePerCall ==
    \A r \in Runs : pc[r] \in {"fanout", "scoring"} =>
        /\ search_events[workflow[r]] = IdsOf(frame[r].evs)
        /\ Len(frame[r].evs) * 2 =
              Cardinality(ProviderCallsOf(r)) + Cardinality(EmittedBy(r))
              - Cardinality({k \in EmittedBy(r) : history[r][k].event.status # "searching"})
        /\ pc[r] = "scoring" =>
              \A k \in DOMAIN frame[r].evs :
                  frame[r].evs[k].status \in {"completed", "failed"}
        /\ \A i \in DOMAIN frame[r].tasks :
              (frame[r].tasks[i].ev # 0 /\ frame[r].tasks[i].st = "returned") =>
                  (frame[r].evs[frame[r].tasks[i].ev].status = "completed"
                      <=> frame[r].tasks[i].error = "")

\* The entries of a state s that run w stored, as pairs of key and value.
FieldsBy(s, w) ==
    {<<"query", s.query>> : x \in {0} \cap {s.query - w}}
    \cup {<<"search_sources", s.search_sources>> : x \in {0} \cap {s.search_sources - w}}
    \cup {<<"research_plan", s.research_plan>> : x \in {0} \cap {s.research_plan.by - w}}
    \cup {<<"search_results", s.search_results>> : x \in {0} \cap {s.search_results.by - w}}
    \cup {<<"reflect_feedback", s.reflect_feedback>> : x \in {0} \cap {s.reflect_feedback - w}}
    \cup {<<"synthesized_answer", s.synthesized_answer>> :
              x \in {0} \cap {s.synthesized_answer - w}}

\* C36: the step that starts a run leaves the shared state with the query and
\* the search sources of that run and no other entry, and a run that is over
\* stores nothing: what a run left behind is gone when the next run starts and
\* so is seen by none of its stages.
StartClearsState ==
    [][\A r \in Runs :
         /\ (pc[r] = "idle" /\ pc'[r] # "idle") =>
               /\ StateOf(r)' = InitialisedState(r)
               /\ \A w \in Runs \ {r} : FieldsBy(StateOf(r)', w) = {}
               /\ started'[r] = <<>>
         /\ pc[r] \in {"done", "failed"} =>
               \A o \in DOMAIN shared : FieldsBy(shared'[o], r) \subseteq FieldsBy(shared[o], r)]_vars

\* The first call failed in its Research stage, after its plan and its
\* results were stored; the second call has started and no stage of it has
\* run yet.
SecondRunStartsClean ==
    /\ pc[1] = "failed"
    /\ started[1] = <<"Planning Agent", "Research Agent">>
    /\ ProviderCallsOf(1) # {}
    /\ pc[2] = "select"
    /\ started[2] = <<>>
    /\ StateOf(2) = InitialisedState(2)

\* What the caller of a returned get_all_state or get_search_results call
\* finds in the dict or list it holds.
HeldBy(t) ==
    IF store.call[t].op = "get_all_state"
    THEN [research_plan |-> store.call[t].research_plan,
          search_results |-> IF store.call[t].list = "bound" THEN store.search_results
                             ELSE store.call[t].got]
    ELSE [research_plan |-> 0, search_results |-> store.call[t].got]

\* C37: a caller that replaces, adds or removes a top-level entry of the dict
\* or list it was returned leaves the store as it is, and no later call on
\* the store changes what a caller was returned earlier.
SnapshotsAreCopies ==
    [][\A t \in DOMAIN store.call :
         (/\ store.call[t].op \in {"get_all_state", "get_search_results"}
          /\ store.call[t].st \in {"returned", "changed"}) =>
             IF store.call[t].st = "returned" /\ store'.call[t].st = "changed"
             THEN /\ store'.search_results = store.search_results
                  /\ store'.research_plan = store.research_plan
             ELSE HeldBy(t)' = HeldBy(t)]_vars

\* The changes of the status of a query.
StatusMoves ==
    {<<"none", "pending">>, <<"pending", "processing">>,
     <<"processing", "completed">>, <<"processing", "failed">>}

\* C38: the status of a query changes only from pending to processing and
\* from processing to completed or failed, so completed and failed are final;
\* it becomes completed only when the call of execute_query has returned; and
\* get_answer returns an answer only for a completed query.
StatusOnlyForward ==
    /\ [][\A q \in Runs :
            queries_db'[q] # queries_db[q] =>
               /\ <<queries_db[q], queries_db'[q]>> \in StatusMoves
               /\ queries_db'[q] = "completed" => pc[q] = "done"]_vars
    /\ [](\A q \in Runs :
            /\ get_answer(q).code = 200 <=> get_answer(q).answer # NoRun
            /\ get_answer(q).code = 200 => queries_db[q] = "completed")

\* One query has failed while another is still processed.
FailedAfterProcessing ==
    \E q, p \in Runs :
        /\ queries_db[q] = "failed"
        /\ queries_db[p] = "processing"
        /\ get_answer(q).code = 425

\* The number of agent_complete events among the first k events of a stream.
CompleteRank(r, k) == Cardinality({j \in Yielded(r, "agent_complete") : j <= k})

UrlsOf(list) == {list[k].url : k \in DOMAIN list}

\* The results of a list with a URL.
WithUrl(results, url) == {k \in DOMAIN results : results[k].url = url}

\* Result k comes before result l in descending relevance order, results of
\* equal score in the order of the list.
RanksBefore(results, k, l) ==
    \/ results[k].relevance_score > results[l].relevance_score
    \/ results[k].relevance_score = results[l].relevance_score /\ k <= l

\* C40: the citations _prepare_sources returns have pairwise distinct URLs,
\* are at most 10 and as many as there are URLs up to 10, and are numbered
\* 1..n; each is made of the first result of its URL in descending relevance
\* order, the citations are in that order, and a URL left out ranks behind
\* every URL cited.
CitationsDistinctRanked ==
    \A r \in Runs : pc[r] = "content" =>
        LET results == frame[r].results
            citations == frame[r].sources
        IN /\ Len(citations) = Min(CitationLimit, Cardinality(UrlsOf(results)))
           /\ \A k, l \in DOMAIN citations : k # l => citations[k].url # citations[l].url
           /\ \A k \in DOMAIN citations :
                 /\ citations[k].citation_number = k
                 /\ citations[k].id \in WithUrl(results, citations[k].url)
                 /\ \A x \in WithUrl(results, citations[k].url) :
                       RanksBefore(results, citations[k].id, x)
                 /\ \A l \in DOMAIN citations :
                       k < l => RanksBefore(results, citations[k].id, citations[l].id)
                 /\ \A x \in DOMAIN results :
                       results[x].url \notin UrlsOf(citations) =>
                           RanksBefore(results, citations[k].id, x)

\* More than 10 URLs, one of them twice: ten citations, none of the URL that
\* ranks last.
TenOfElevenCited ==
    \E r \in Runs :
        /\ pc[r] = "content"
        /\ Cardinality(UrlsOf(frame[r].results)) > CitationLimit
        /\ Len(frame[r].results) > Cardinality(UrlsOf(frame[r].results))
        /\ Len(frame[r].sources) = CitationLimit
        /\ \E k \in DOMAIN frame[r].sources : frame[r].sources[k].id # k

====
